---- MODULE Spec2Model ----
(***************************************************************************)
(* Promocode codec of Codex Nova Nebula: PromocodeGenerator (encode) and   *)
(* PromocodeParser (decode), with the ruleset they load from Airtable.     *)
(*                                                                         *)
(* Strings are sequences of one-character strings.  A JavaScript value is  *)
(* a record [t, n, s]: t is its type tag, n the number in TENTHS (so that  *)
(* Math.round has something to round), s the characters of a string.       *)
(***************************************************************************)
EXTENDS Integers, Sequences, FiniteSets, TLC

VARIABLES
    remote,             \* the active ruleset record served by Airtable
    form,               \* the inputs object handed to generateCode
    pasted,             \* the value handed to parseCode / quickValidate
    genRuleset,         \* PromocodeGenerator.ruleset
    lastGeneratedCode,  \* PromocodeGenerator.lastGeneratedCode
    history,            \* localStorage[Config.STORAGE.HISTORY], codes only
    parserRuleset,      \* PromocodeParser.ruleset
    lastParsedCode,     \* PromocodeParser.lastParsedCode
    lastParsedResult,   \* PromocodeParser.lastParsedResult
    ret,                \* what the last call returned or threw
    inflight,           \* the parseCode call that is suspended at an await
    cache,              \* AirtableService.cache
    pendingRequests,    \* AirtableService.pendingRequests
    requests,           \* the promises performFetch returned to fetchData
    calls,              \* the fetchData calls made so far
    stack,              \* the performFetch frames of one call, by page
    issued,             \* HTTP requests issued by that call, by page
    settled,            \* whether that call is pending, fulfilled or rejected
    isGenerating,       \* PromocodeModule.isGenerating
    generating,         \* the generateCode calls suspended at await initialize()
    clicks,             \* clicks on the generate button so far
    lastClick,          \* what the last click did
    currentBrandId,     \* ProductService.currentBrandId
    filteredProducts,   \* ProductService.filteredProducts
    brandFetches,       \* the fetchProductsByBrand calls waiting for Airtable
    selections          \* brand selections so far

codecVars == <<remote, form, pasted, genRuleset, lastGeneratedCode, history,
               parserRuleset, lastParsedCode, lastParsedResult, ret, inflight>>
fetchVars == <<cache, pendingRequests, requests, calls>>
retryVars == <<stack, issued, settled>>
clickVars == <<isGenerating, generating, clicks, lastClick>>
brandVars == <<currentBrandId, filteredProducts, brandFetches, selections>>
serviceVars == <<fetchVars, retryVars, clickVars, brandVars>>

vars == <<codecVars, serviceVars>>

-----------------------------------------------------------------------------
(* Bounds of the model *)

\* number of fields of the base input that one input may change
MaxDeviations == 2
\* number of optional middle segments of a pasted code
MaxMiddle == 2
\* number of generateCode calls in one behaviour
MaxGenerations == 2
\* number of fetchData calls in one behaviour
MaxCalls == 3
\* number of pages of the table performFetch reads
MaxPages == 2
\* number of clicks on the generate button in one behaviour
MaxClicks == 3
\* number of brand selections in one behaviour
MaxSelections == 3

-----------------------------------------------------------------------------
(* Characters and strings *)

LowerLetters == <<"a","b","c","d","e","f","g","h","i","j","k","l","m",
                  "n","o","p","q","r","s","t","u","v","w","x","y","z">>
UpperLetters == <<"A","B","C","D","E","F","G","H","I","J","K","L","M",
                  "N","O","P","Q","R","S","T","U","V","W","X","Y","Z">>
DigitChars   == <<"0","1","2","3","4","5","6","7","8","9">>

Range(f) == { f[i] : i \in DOMAIN f }

IsDigit(c) == c \in Range(DigitChars)
IsLower(c) == c \in Range(LowerLetters)
IsUpper(c) == c \in Range(UpperLetters)

DigitVal(c) == (CHOOSE i \in 1..10 : DigitChars[i] = c) - 1

UpperChar(c) ==
    IF IsLower(c) THEN UpperLetters[CHOOSE i \in 1..26 : LowerLetters[i] = c]
    ELSE c

LowerChar(c) ==
    IF IsUpper(c) THEN LowerLetters[CHOOSE i \in 1..26 : UpperLetters[i] = c]
    ELSE c

\* String.prototype.toUpperCase / toLowerCase
toUpperCase(s) == [i \in 1..Len(s) |-> UpperChar(s[i])]
toLowerCase(s) == [i \in 1..Len(s) |-> LowerChar(s[i])]

\* String.prototype.substring(0, n)
substring0(s, n) == IF Len(s) > n THEN SubSeq(s, 1, n) ELSE s

\* s.replace(/[^A-Z0-9]/g, '') and s.replace(/[^A-Z0-9]/gi, '')
stripNonUpperAlnum(s) == SelectSeq(s, LAMBDA c : IsUpper(c) \/ IsDigit(c))
stripNonAlnum(s) == SelectSeq(s, LAMBDA c : IsUpper(c) \/ IsLower(c) \/ IsDigit(c))

\* String.prototype.trim, for the one whitespace character of the model
RECURSIVE trimLeft(_)
trimLeft(s) == IF s # <<>> /\ Head(s) = " " THEN trimLeft(Tail(s)) ELSE s
RECURSIVE trimRight(_)
trimRight(s) ==
    IF s # <<>> /\ s[Len(s)] = " " THEN trimRight(SubSeq(s, 1, Len(s) - 1)) ELSE s
trim(s) == trimRight(trimLeft(s))

\* Array.prototype.join(sep) on an array of strings
RECURSIVE join(_, _)
join(segs, sep) ==
    IF segs = <<>> THEN <<>>
    ELSE IF Len(segs) = 1 THEN segs[1]
    ELSE segs[1] \o sep \o join(Tail(segs), sep)

\* String.prototype.split(sep) for a one-character separator
RECURSIVE splitFrom(_, _, _)
splitFrom(s, sep, cur) ==
    IF s = <<>> THEN <<cur>>
    ELSE IF Head(s) = sep THEN <<cur>> \o splitFrom(Tail(s), sep, <<>>)
    ELSE splitFrom(Tail(s), sep, Append(cur, Head(s)))
split(s, sep) == splitFrom(s, sep[1], <<>>)

\* Number.prototype.toString for an integer
RECURSIVE natToString(_)
natToString(n) ==
    IF n < 10 THEN <<DigitChars[n + 1]>>
    ELSE Append(natToString(n \div 10), DigitChars[(n % 10) + 1])
numToString(n) == IF n < 0 THEN <<"-">> \o natToString(-n) ELSE natToString(n)

\* parseInt(s, 10) of a string of digits
RECURSIVE parseInt(_)
parseInt(s) ==
    IF s = <<>> THEN 0
    ELSE 10 * parseInt(SubSeq(s, 1, Len(s) - 1)) + DigitVal(s[Len(s)])

-----------------------------------------------------------------------------
(* JavaScript values *)

Undefined == [t |-> "undefined", n |-> 0, s |-> <<>>]
Null      == [t |-> "null", n |-> 0, s |-> <<>>]
\* a number given in tenths: Tenths(25) is 2.5
Tenths(k) == [t |-> "number", n |-> k, s |-> <<>>]
\* a whole number
Num(k)    == Tenths(10 * k)
Str(s)    == [t |-> "string", n |-> 0, s |-> s]

\* ToBoolean
Truthy(v) ==
    CASE v.t = "number" -> v.n # 0
      [] v.t = "string" -> v.s # <<>>
      [] OTHER -> FALSE

\* a || b
OrElse(a, b) == IF Truthy(a) THEN a ELSE b

\* Math.round of a number in tenths: floor(x + 0.5), as a whole number
MathRound(k) == (k + 5) \div 10

-----------------------------------------------------------------------------
(* Config.PROMOCODE *)

CODE_TYPES == << <<"W","B">>, <<"H","B">>, <<"C","M","P">>,
                 <<"F","R","E","E">>, <<"E","M","P">>, <<"K","S">> >>
FREETEXT == 15
\* PATTERNS.INITIAL_OFFER.source
INITIAL_OFFER == "^(\\d+)([MUQY])(\\d+)([KP])$"
HISTORY_LIMIT == 50

-----------------------------------------------------------------------------
(* The ruleset: AirtableService.fetchPromocodeRuleset *)

\* this.ruleset = null
NullRuleset == [separator |-> <<>>, casing |-> "null", freetextMaxLength |-> 0,
                initialOfferRegex |-> ""]

\* an initial-offer pattern a Rulesets record can carry: the default one with
\* D (days) added to the periods
DAYS_OFFER == "^(\\d+)([MUQYD])(\\d+)([KP])$"

\* The fields of the Rulesets record that the codec reads.  A field the
\* record does not carry is the empty string, "" or 0 (all falsy).  The
\* renewal-plan pattern is the default one in every ruleset of the model.
\* One ruleset sets a freetext length of its own.
RemoteRulesets ==
    [ Separator : {<<>>, <<"_">>},
      Casing : {"", "LOWER", "CAMEL", "KEBAB", "TITLE"},
      Freetext_Max_Length : {0},
      InitialOffer_Regex : {""} ]
    \cup [ Separator : {<<>>}, Casing : {""}, Freetext_Max_Length : {2},
           InitialOffer_Regex : {""} ]

\* the records an editor of the Rulesets table switches between while the
\* parser is in use
SwappedRulesets ==
    [ Separator : {<<>>, <<"_">>},
      Casing : {""},
      Freetext_Max_Length : {0},
      InitialOffer_Regex : {"", DAYS_OFFER} ]

fetchPromocodeRuleset(fields) ==
    [ separator |-> IF fields.Separator # <<>> THEN fields.Separator ELSE <<"-">>,
      casing |-> IF fields.Casing # "" THEN fields.Casing ELSE "UPPER",
      freetextMaxLength |->
          IF fields.Freetext_Max_Length # 0 THEN fields.Freetext_Max_Length ELSE 15,
      initialOfferRegex |->
          IF fields.InitialOffer_Regex # "" THEN fields.InitialOffer_Regex
          ELSE INITIAL_OFFER ]

-----------------------------------------------------------------------------
(* PromocodeGenerator *)

Cond(b, msg) == IF b THEN <<msg>> ELSE <<>>

\* validateInputs with the discount amount tested as !inputs.discountAmount
validateInputs_falsyDiscount(inputs) ==
       Cond(~inputs.brand.isObj \/ ~Truthy(inputs.brand.code), "Brand is required")
    \o Cond(~inputs.product.isObj, "Product is required")
    \o Cond(~Truthy(inputs.initialLength) \/ inputs.initialLength.n <= 0,
            "Initial offer length must be greater than 0")
    \o Cond(~Truthy(inputs.initialPeriod), "Initial offer period is required")
    \o Cond(~Truthy(inputs.discountAmount) \/ inputs.discountAmount.n < 0,
            "Discount amount must be 0 or greater")
    \o Cond(~Truthy(inputs.discountType), "Discount type is required")
    \o Cond(~Truthy(inputs.renewalType), "Renewal type is required")
    \o Cond(~Truthy(inputs.renewalTerm), "Renewal term is required")
    \o Cond(inputs.price = Undefined /\ inputs.overridePrice = Undefined,
            "Price is required (select a rate plan or enter override price)")

\* the errors array of validateInputs
validateInputs(inputs) ==
       Cond(~inputs.brand.isObj \/ ~Truthy(inputs.brand.code), "Brand is required")
    \o Cond(~inputs.product.isObj, "Product is required")
    \o Cond(~Truthy(inputs.initialLength) \/ inputs.initialLength.n <= 0,
            "Initial offer length must be greater than 0")
    \o Cond(~Truthy(inputs.initialPeriod), "Initial offer period is required")
    \o Cond(\/ inputs.discountAmount = Undefined
            \/ inputs.discountAmount = Null
            \/ inputs.discountAmount.n < 0,
            "Discount amount must be 0 or greater")
    \o Cond(~Truthy(inputs.discountType), "Discount type is required")
    \o Cond(~Truthy(inputs.renewalType), "Renewal type is required")
    \o Cond(~Truthy(inputs.renewalTerm), "Renewal term is required")
    \o Cond(inputs.price = Undefined /\ inputs.overridePrice = Undefined,
            "Price is required (select a rate plan or enter override price)")

generateBrandSegment(brand) ==
    IF ~brand.isObj \/ ~Truthy(brand.code) THEN <<>>
    ELSE toUpperCase(brand.code.s)

\* generateProductShortcode that takes the 4 characters before it strips
generateProductShortcode_cutFirst(productName) ==
    IF ~Truthy(productName) THEN <<>>
    ELSE toUpperCase(stripNonAlnum(substring0(productName.s, 4)))

\* ProductService.generateProductShortcode
generateProductShortcode(productName) ==
    IF ~Truthy(productName) THEN <<>>
    ELSE toUpperCase(substring0(stripNonAlnum(productName.s), 4))

\* ProductService.getProductCode
getProductCode(product) ==
    IF ~product.isObj THEN <<>>
    ELSE IF Truthy(product.code) THEN product.code.s
    ELSE IF Truthy(product.promocodeId) THEN product.promocodeId.s
    ELSE generateProductShortcode(product.name)

generateProductSegment(product) ==
    IF ~product.isObj THEN <<>>
    ELSE IF getProductCode(product) # <<>> THEN toUpperCase(getProductCode(product))
    ELSE generateProductShortcode(product.name)

generateInitialOfferSegment(length, period, discountAmount, discountType) ==
       numToString(MathRound(length.n))
    \o toUpperCase(period.s)
    \o numToString(MathRound(discountAmount.n))
    \o toUpperCase(discountType.s)

generateRenewalTypeSegment(renewalType) == toUpperCase(renewalType.s)

\* generateFreetextSegment that cuts the text before it sanitizes it
generateFreetextSegment_cutFirst(text, ruleset) ==
    IF ~Truthy(text) THEN <<>>
    ELSE LET maxLength == IF ruleset.freetextMaxLength # 0
                          THEN ruleset.freetextMaxLength ELSE FREETEXT
             cut == IF Len(text.s) > maxLength
                    THEN SubSeq(text.s, 1, maxLength) ELSE text.s
         IN  stripNonUpperAlnum(toUpperCase(cut))

generateFreetextSegment(text, ruleset) ==
    IF ~Truthy(text) THEN <<>>
    ELSE LET sanitized == stripNonUpperAlnum(toUpperCase(text.s))
             maxLength == IF ruleset.freetextMaxLength # 0
                          THEN ruleset.freetextMaxLength ELSE FREETEXT
         IN  IF Len(sanitized) > maxLength
             THEN SubSeq(sanitized, 1, maxLength) ELSE sanitized

\* generateCodeTypeSegment without the test against the allowed types
generateCodeTypeSegment_anyToken(codeType) ==
    IF ~Truthy(codeType) THEN <<>>
    ELSE toUpperCase(codeType.s)

generateCodeTypeSegment(codeType) ==
    IF ~Truthy(codeType) THEN <<>>
    ELSE IF toUpperCase(codeType.s) \in Range(CODE_TYPES)
         THEN toUpperCase(codeType.s) ELSE <<>>

generateRenewalPlanSegment(renewalTerm, price) ==
    LET priceValue == IF price # Undefined /\ price # Null /\ price # Str(<<>>)
                      THEN MathRound(price.n) ELSE 0
    IN  toUpperCase(renewalTerm.s) \o numToString(priceValue)

\* applyCasing whose default case lowercases
applyCasing_defaultLower(text, casing) ==
    CASE casing = "UPPER" -> toUpperCase(text)
      [] casing = "LOWER" -> toLowerCase(text)
      [] casing = "CAMEL" ->
            LET low == toLowerCase(text)
            IN  [i \in 1..Len(low) |->
                    IF i > 1 /\ low[i - 1] = "-" /\ IsLower(low[i])
                    THEN UpperChar(low[i]) ELSE low[i]]
      [] casing = "KEBAB" -> toLowerCase(text)
      [] OTHER -> toLowerCase(text)

applyCasing(text, casing) ==
    CASE casing = "UPPER" -> toUpperCase(text)
      [] casing = "LOWER" -> toLowerCase(text)
      [] casing = "CAMEL" ->
            LET low == toLowerCase(text)
            IN  [i \in 1..Len(low) |->
                    IF i > 1 /\ low[i - 1] = "-" /\ IsLower(low[i])
                    THEN UpperChar(low[i]) ELSE low[i]]
      [] casing = "KEBAB" -> toLowerCase(text)
      [] OTHER -> toUpperCase(text)

PushIf(segments, seg) == IF seg # <<>> THEN Append(segments, seg) ELSE segments

\* generateSegments with the code type pushed before the freetext
generateSegments_codeTypeFirst(inputs, ruleset) ==
    LET s1 == PushIf(<<>>, generateBrandSegment(inputs.brand))
        s2 == PushIf(s1, generateProductSegment(inputs.product))
        s3 == PushIf(s2, generateInitialOfferSegment(inputs.initialLength,
                  inputs.initialPeriod, inputs.discountAmount, inputs.discountType))
        s4 == PushIf(s3, generateRenewalTypeSegment(inputs.renewalType))
        s5 == IF Truthy(inputs.codeType)
              THEN PushIf(s4, generateCodeTypeSegment(inputs.codeType))
              ELSE s4
        s6 == IF Truthy(inputs.campaignText) /\ trim(inputs.campaignText.s) # <<>>
              THEN PushIf(s5, generateFreetextSegment(inputs.campaignText, ruleset))
              ELSE s5
    IN  PushIf(s6, generateRenewalPlanSegment(inputs.renewalTerm,
                       OrElse(inputs.price, inputs.overridePrice)))

\* the segments array of generateCode, lines 53-93
generateSegments(inputs, ruleset) ==
    LET s1 == PushIf(<<>>, generateBrandSegment(inputs.brand))
        s2 == PushIf(s1, generateProductSegment(inputs.product))
        s3 == PushIf(s2, generateInitialOfferSegment(inputs.initialLength,
                  inputs.initialPeriod, inputs.discountAmount, inputs.discountType))
        s4 == PushIf(s3, generateRenewalTypeSegment(inputs.renewalType))
        s5 == IF Truthy(inputs.campaignText) /\ trim(inputs.campaignText.s) # <<>>
              THEN PushIf(s4, generateFreetextSegment(inputs.campaignText, ruleset))
              ELSE s4
        s6 == IF Truthy(inputs.codeType)
              THEN PushIf(s5, generateCodeTypeSegment(inputs.codeType))
              ELSE s5
    IN  PushIf(s6, generateRenewalPlanSegment(inputs.renewalTerm,
                       OrElse(inputs.price, inputs.overridePrice)))

\* promocodeOf that numbers the code by the entries of the stored history
promocodeOf_numbered(inputs, ruleset) ==
    applyCasing(join(generateSegments(inputs, ruleset),
                     IF ruleset.separator # <<>> THEN ruleset.separator ELSE <<"-">>),
                ruleset.casing) \o natToString(Len(history))

\* the promocode of generateCode, lines 96-99
promocodeOf(inputs, ruleset) ==
    applyCasing(join(generateSegments(inputs, ruleset),
                     IF ruleset.separator # <<>> THEN ruleset.separator ELSE <<"-">>),
                ruleset.casing)

\* saveToHistory that adds the entry at the end
saveToHistory_push(code, hist) ==
    LET h == hist \o <<code>>
    IN  IF Len(h) > HISTORY_LIMIT THEN SubSeq(h, 1, HISTORY_LIMIT) ELSE h

\* saveToHistory: unshift, then keep the first 50
saveToHistory(code, hist) ==
    LET h == <<code>> \o hist
    IN  IF Len(h) > HISTORY_LIMIT THEN SubSeq(h, 1, HISTORY_LIMIT) ELSE h

-----------------------------------------------------------------------------
(* PromocodeParser *)

RENEWAL_TYPES == [c \in {<<"T">>, <<"E">>} |->
                    IF c = <<"T">> THEN "Termed" ELSE "Evergreen"]
PERIODS == [c \in {"M", "U", "Q", "Y"} |->
              CASE c = "M" -> "Months" [] c = "U" -> "Weeks"
                [] c = "Q" -> "Quarters" [] c = "Y" -> "Years"]
TERMS == [c \in {"M", "Q", "Y", "U"} |->
            CASE c = "M" -> "Monthly" [] c = "Q" -> "Quarterly"
              [] c = "Y" -> "Yearly" [] c = "U" -> "Weekly"]
DISCOUNT_TYPES == [c \in {"K", "P"} |-> IF c = "K" THEN "Kroner" ELSE "Percent"]

\* brandService.brands and productService.allProducts, as loaded
Brands == { [code |-> <<"A","P">>, name |-> "Aftenposten"] }
Products == { [code |-> <<"P","L","U","S">>, name |-> "Plus"] }

\* number of leading characters of s that are digits
RECURSIVE leadingDigits(_)
leadingDigits(s) ==
    IF s # <<>> /\ IsDigit(Head(s)) THEN 1 + leadingDigits(Tail(s)) ELSE 0

NoMatch == [ok |-> FALSE, groups |-> <<>>]

\* the letters of the second group of an initial-offer pattern
periodClass(regex) ==
    CASE regex = INITIAL_OFFER -> {"M", "U", "Q", "Y"}
      [] regex = DAYS_OFFER -> {"M", "U", "Q", "Y", "D"}

\* segment.match(new RegExp(regex))
matchRegex(segment, regex) ==
    LET d1   == leadingDigits(segment)
        rest == SubSeq(segment, d1 + 2, Len(segment))
        d2   == leadingDigits(rest)
    IN  IF /\ d1 >= 1
           /\ Len(segment) >= d1 + 1
           /\ segment[d1 + 1] \in periodClass(regex)
           /\ d2 >= 1
           /\ Len(rest) = d2 + 1
           /\ rest[d2 + 1] \in {"K", "P"}
        THEN [ok |-> TRUE,
              groups |-> << SubSeq(segment, 1, d1), <<segment[d1 + 1]>>,
                            SubSeq(rest, 1, d2), <<rest[d2 + 1]>> >>]
        ELSE NoMatch

\* segment.match(/^(\d+)([MUQY])(\d+)([KP])$/)
matchInitialOffer(segment) == matchRegex(segment, INITIAL_OFFER)

\* segment.match(/^([MQYU])(\d+)$/)
matchRenewalPlan(segment) ==
    IF /\ Len(segment) >= 2
       /\ segment[1] \in {"M", "Q", "Y", "U"}
       /\ leadingDigits(Tail(segment)) = Len(segment) - 1
    THEN [ok |-> TRUE, groups |-> << <<segment[1]>>, Tail(segment) >>]
    ELSE NoMatch

\* parseInitialOffer with the length read from group 3 and the discount from
\* group 1
parseInitialOffer_swapped(segment, ruleset) ==
    LET m == matchRegex(segment, IF ruleset.initialOfferRegex # ""
                                 THEN ruleset.initialOfferRegex ELSE INITIAL_OFFER)
    IN  IF ~m.ok
        THEN [ok |-> FALSE, length |-> Undefined, period |-> Undefined,
              discount |-> Undefined, type |-> Undefined]
        ELSE [ok |-> TRUE,
              length |-> Num(parseInt(m.groups[3])),
              period |-> Str(m.groups[2]),
              discount |-> Num(parseInt(m.groups[1])),
              type |-> Str(m.groups[4])]

\* parseInitialOffer: ok = FALSE stands for the Error it throws
parseInitialOffer(segment, ruleset) ==
    LET m == matchRegex(segment, IF ruleset.initialOfferRegex # ""
                                 THEN ruleset.initialOfferRegex ELSE INITIAL_OFFER)
    IN  IF ~m.ok
        THEN [ok |-> FALSE, length |-> Undefined, period |-> Undefined,
              discount |-> Undefined, type |-> Undefined]
        ELSE [ok |-> TRUE,
              length |-> Num(parseInt(m.groups[1])),
              period |-> Str(m.groups[2]),
              discount |-> Num(parseInt(m.groups[3])),
              type |-> Str(m.groups[4])]

\* parseRenewalPlan returning a monthly plan of price 0 for a segment that
\* does not match
parseRenewalPlan_anySegment(segment) ==
    LET m == matchRenewalPlan(segment)
    IN  IF ~m.ok
        THEN [ok |-> TRUE, term |-> Str(<<"M">>), price |-> Num(0)]
        ELSE [ok |-> TRUE, term |-> Str(m.groups[1]),
              price |-> Num(parseInt(m.groups[2]))]

\* parseRenewalPlan: ok = FALSE stands for the null it returns
parseRenewalPlan(segment) ==
    LET m == matchRenewalPlan(segment)
    IN  IF ~m.ok
        THEN [ok |-> FALSE, term |-> Undefined, price |-> Undefined]
        ELSE [ok |-> TRUE, term |-> Str(m.groups[1]),
              price |-> Num(parseInt(m.groups[2]))]

isCodeType(segment) == toUpperCase(segment) \in Range(CODE_TYPES)

\* decodeBrand that displays nothing when no brand is found
decodeBrand_blankOnFailure(brandCode, lookupOk) ==
    IF lookupOk /\ \E b \in Brands : b.code = brandCode
    THEN [name |-> (CHOOSE b \in Brands : b.code = brandCode).name, code |-> brandCode]
    ELSE [name |-> "", code |-> <<>>]

\* decodeBrand / decodeProduct: the name found, or the raw code when the
\* code is unknown or the lookup raised
decodeBrand(brandCode, lookupOk) ==
    IF lookupOk /\ \E b \in Brands : b.code = brandCode
    THEN [name |-> (CHOOSE b \in Brands : b.code = brandCode).name, code |-> brandCode]
    ELSE [name |-> "", code |-> brandCode]

decodeProduct(productCode, lookupOk) ==
    IF lookupOk /\ \E q \in Products : q.code = productCode
    THEN [name |-> (CHOOSE q \in Products : q.code = productCode).name,
          code |-> productCode]
    ELSE [name |-> "", code |-> productCode]

decodeRenewalType(type) ==
    IF type \in DOMAIN RENEWAL_TYPES
    THEN [name |-> RENEWAL_TYPES[type], code |-> type]
    ELSE [name |-> "", code |-> type]

decodeCodeType(code) ==
    CASE code = <<"W","B">> -> [name |-> "Winback", code |-> code]
      [] code = <<"H","B">> -> [name |-> "Holdback", code |-> code]
      [] code = <<"C","M","P">> -> [name |-> "Campaign", code |-> code]
      [] code = <<"F","R","E","E">> -> [name |-> "Free", code |-> code]
      [] code = <<"E","M","P">> -> [name |-> "Employee", code |-> code]
      [] code = <<"K","S">> -> [name |-> "Kompis", code |-> code]
      [] OTHER -> [name |-> "", code |-> code]

NoDisplay == [name |-> "", code |-> <<>>]

\* formatInitialOffer / formatRenewalPlan: the parts of the display string
formatInitialOffer(parsed) ==
    [ length |-> parsed.length.n \div 10,
      period |-> IF parsed.period.s[1] \in DOMAIN PERIODS
                 THEN PERIODS[parsed.period.s[1]] ELSE parsed.period.s[1],
      discount |-> parsed.discount.n \div 10,
      discountType |-> IF parsed.type.s[1] \in DOMAIN DISCOUNT_TYPES
                       THEN DISCOUNT_TYPES[parsed.type.s[1]] ELSE parsed.type.s[1] ]

formatRenewalPlan(parsed) ==
    [ term |-> IF parsed.term.s[1] \in DOMAIN TERMS
               THEN TERMS[parsed.term.s[1]] ELSE parsed.term.s[1],
      price |-> parsed.price.n \div 10 ]

NoInitialOffer == [length |-> 0, period |-> "", discount |-> 0, discountType |-> ""]
NoRenewalPlan == [term |-> "", price |-> 0]

\* result.parsed = {} and result.humanReadable = {}
EmptyParsed ==
    [ brand |-> Undefined, product |-> Undefined, initialOffer |-> Undefined,
      initialLength |-> Undefined, initialPeriod |-> Undefined,
      discountAmount |-> Undefined, discountType |-> Undefined,
      renewalType |-> Undefined, renewalPlan |-> Undefined,
      renewalTerm |-> Undefined, price |-> Undefined,
      codeType |-> Undefined, campaignText |-> Undefined ]

EmptyHuman ==
    [ brand |-> NoDisplay, product |-> NoDisplay,
      initialOffer |-> NoInitialOffer, renewalType |-> NoDisplay,
      codeType |-> NoDisplay, campaignText |-> Undefined,
      renewalPlan |-> NoRenewalPlan ]

NoError == [message |-> "", segment |-> <<>>]

\* the loop over middleSegments, lines 815-827, on the pair (parsed, humanReadable)
RECURSIVE middleLoop(_, _)
middleLoop(middleSegments, acc) ==
    IF middleSegments = <<>> THEN acc
    ELSE LET segment == Head(middleSegments)
             next ==
                IF isCodeType(segment)
                THEN [parsed |-> [acc.parsed EXCEPT !.codeType = Str(segment)],
                      human |-> [acc.human EXCEPT !.codeType = decodeCodeType(segment)]]
                ELSE IF ~Truthy(acc.parsed.campaignText)
                THEN [parsed |-> [acc.parsed EXCEPT !.campaignText = Str(segment)],
                      human |-> [acc.human EXCEPT !.campaignText = Str(segment)]]
                ELSE acc
         IN  middleLoop(Tail(middleSegments), next)

\* the guard with 4 in the place of 5
insufficientSegments_four(segments) == Len(segments) < 4

\* segments.length < 5, line 757
insufficientSegments(segments) == Len(segments) < 5

\* the renewal plan taken at the fixed offset 4
lastSegmentOf_fixedOffset(segments) == segments[5]

\* segments[segments.length - 1], line 800
lastSegmentOf(segments) == segments[Len(segments)]

\* generateSummary: the labels of the parts it joins with ' | '
generateSummary(human) ==
       Cond(human.brand.code # <<>>, "Brand")
    \o Cond(human.product.code # <<>>, "Product")
    \o <<"Initial Offer">>
    \o Cond(human.renewalType.code # <<>>, "Renewal")
    \o Cond(Truthy(human.campaignText), "Campaign")
    \o Cond(human.codeType.code # <<>>, "Type")
    \o <<"Renewal Plan">>

\* the result object of parseCode for an array of at least 5 segments,
\* lines 761-847
parseSegments(code, segments, lookupOk, ruleset) ==
    LET io == parseInitialOffer(segments[3], ruleset)
        lastSegment == lastSegmentOf(segments)
        rp == parseRenewalPlan(lastSegment)
        p2 == [EmptyParsed EXCEPT !.brand = Str(segments[1]),
                                  !.product = Str(segments[2])]
        h2 == [EmptyHuman EXCEPT !.brand = decodeBrand(segments[1], lookupOk),
                                 !.product = decodeProduct(segments[2], lookupOk)]
        p4 == [p2 EXCEPT !.initialOffer = Str(segments[3]),
                         !.initialLength = io.length,
                         !.initialPeriod = io.period,
                         !.discountAmount = io.discount,
                         !.discountType = io.type,
                         !.renewalType = Str(segments[4])]
        h4 == [h2 EXCEPT !.initialOffer = formatInitialOffer(io),
                         !.renewalType = decodeRenewalType(segments[4])]
        p5 == [p4 EXCEPT !.renewalPlan = Str(lastSegment),
                         !.renewalTerm = rp.term,
                         !.price = rp.price]
        mid == middleLoop(SubSeq(segments, 5, Len(segments) - 1),
                          [parsed |-> p5,
                           human |-> [h4 EXCEPT !.renewalPlan = formatRenewalPlan(rp)]])
        base == [isValid |-> FALSE, originalCode |-> code, segments |-> segments,
                 parsed |-> EmptyParsed, humanReadable |-> EmptyHuman,
                 error |-> NoError, summary |-> <<>>]
    IN  IF ~io.ok
        THEN [base EXCEPT !.parsed = p2, !.humanReadable = h2,
                          !.error = [message |-> "Invalid initial offer format: ",
                                     segment |-> segments[3]]]
        ELSE IF ~rp.ok
        THEN [base EXCEPT !.parsed = p4, !.humanReadable = h4,
                          !.error = [message |-> "Invalid renewal plan segment",
                                     segment |-> <<>>]]
        ELSE [base EXCEPT !.isValid = TRUE, !.parsed = mid.parsed,
                          !.humanReadable = mid.human,
                          !.summary = generateSummary(mid.human)]

\* this.ruleset.separator || '-'
separatorOf(ruleset) == IF ruleset.separator # <<>> THEN ruleset.separator ELSE <<"-">>

\* number of matches of new RegExp(`\\${separator}`, 'g') in code
separatorCount(code, separator) ==
    Cardinality({ i \in 1..Len(code) : code[i] = separator[1] })

\* quickValidate with code.length <= 15
quickValidate_offByOne(code, ruleset) ==
    IF ~Truthy(code) \/ code.t # "string" THEN FALSE
    ELSE IF Len(code.s) <= 15 THEN FALSE
    ELSE IF separatorCount(code.s, separatorOf(ruleset)) < 4 THEN FALSE
    ELSE TRUE

quickValidate(code, ruleset) ==
    IF ~Truthy(code) \/ code.t # "string" THEN FALSE
    ELSE IF Len(code.s) < 15 THEN FALSE
    ELSE IF separatorCount(code.s, separatorOf(ruleset)) < 4 THEN FALSE
    ELSE TRUE

-----------------------------------------------------------------------------
(* The inputs of the model *)

Obj(code, promocodeId, name) ==
    [isObj |-> TRUE, code |-> code, promocodeId |-> promocodeId, name |-> name]
\* inputs.brand / inputs.product absent
NoObj == [isObj |-> FALSE, code |-> Undefined, promocodeId |-> Undefined,
          name |-> Undefined]

\* what the form yields for the example of the format: an input that passes
\* validateInputs, with a code type and no campaign text
BaseInput ==
    [ brand |-> Obj(Str(<<"a","p">>), Undefined, Str(<<"A","f","t">>)),
      product |-> Obj(Str(<<"p","l","u","s">>), Undefined, Str(<<"P","l","u","s">>)),
      initialLength |-> Num(3),
      initialPeriod |-> Str(<<"m">>),
      discountAmount |-> Num(19),
      discountType |-> Str(<<"k">>),
      renewalType |-> Str(<<"t">>),
      renewalTerm |-> Str(<<"m">>),
      campaignText |-> Str(<<>>),
      codeType |-> Str(<<"w","b">>),
      price |-> Num(24),
      overridePrice |-> Undefined ]

Fields == DOMAIN BaseInput

\* the other values of each field
Alternatives ==
    [ brand |-> {NoObj, Obj(Undefined, Undefined, Str(<<"A","f","t">>))},
      product |-> {NoObj,
                   Obj(Undefined, Str(<<"p","i","d">>), Str(<<"P","l","u","s">>)),
                   Obj(Undefined, Undefined, Str(<<"e","-","P"," ","a","v","i","s">>)),
                   Obj(Undefined, Undefined, Undefined)},
      initialLength |-> {Undefined, Num(0), Tenths(25)},
      initialPeriod |-> {Str(<<>>), Str(<<"x">>)},
      discountAmount |-> {Undefined, Null, Num(-1), Num(0)},
      discountType |-> {Str(<<>>)},
      renewalType |-> {Str(<<>>)},
      renewalTerm |-> {Str(<<>>)},
      campaignText |-> {Str(<<" ">>), Str(<<"a","!","b">>), Str(<<"!","!">>),
                        Str(<<"a","!","b","c","d","e","f","g","h","i","j","k",
                              "l","m","n","o","p","q">>)},
      codeType |-> {Str(<<>>), Str(<<"z","z">>)},
      price |-> {Undefined, Null, Str(<<>>), Num(0), Tenths(245)},
      overridePrice |-> {Num(9), Num(0)} ]

ValuesOf(f, changed) == IF f \in changed THEN Alternatives[f] ELSE {BaseInput[f]}

\* the inputs that differ from BaseInput in at most n fields
InputsWithin(n) ==
    UNION { [ brand : ValuesOf("brand", changed),
              product : ValuesOf("product", changed),
              initialLength : ValuesOf("initialLength", changed),
              initialPeriod : ValuesOf("initialPeriod", changed),
              discountAmount : ValuesOf("discountAmount", changed),
              discountType : ValuesOf("discountType", changed),
              renewalType : ValuesOf("renewalType", changed),
              renewalTerm : ValuesOf("renewalTerm", changed),
              campaignText : ValuesOf("campaignText", changed),
              codeType : ValuesOf("codeType", changed),
              price : ValuesOf("price", changed),
              overridePrice : ValuesOf("overridePrice", changed) ] :
            changed \in { c \in SUBSET Fields : Cardinality(c) <= n } }

Inputs == InputsWithin(MaxDeviations)

\* the Rulesets record that sets no field
DefaultRecord ==
    [ Separator |-> <<>>, Casing |-> "", Freetext_Max_Length |-> 0,
      InitialOffer_Regex |-> "" ]

\* segments a pasted code is made of, by position
Segment0 == { <<"A","P">> }
Segment1 == { <<"P","L","U","S">>, <<"P">> }
Segment2 == { <<"3","M","9","K">>, <<"B","A","D","S","E","G">> }
Segment3 == { <<"T">>, <<"X">>, <<>> }
MiddlePool == { <<"W","B">>, <<"w","b">>, <<"S","U","M","M","E","R">>,
                <<"M","2","4">>, <<>> }
LastSegment == { <<"M","2","4">>, <<"W","B">> }

RECURSIVE SeqsUpTo(_, _)
SeqsUpTo(S, n) ==
    IF n = 0 THEN { <<>> }
    ELSE SeqsUpTo(S, n - 1)
         \cup { Append(q, x) : q \in { r \in SeqsUpTo(S, n - 1) : Len(r) = n - 1 },
                               x \in S }

\* the lists of 5 and more segments with up to n middle segments, and the
\* shorter lists
SegmentLists(n) ==
    { <<s0, s1, s2, s3>> \o mid \o <<last>> :
        s0 \in Segment0, s1 \in Segment1, s2 \in Segment2, s3 \in Segment3,
        mid \in SeqsUpTo(MiddlePool, n), last \in LastSegment }
    \cup { SubSeq(<<s0, s1, s2, last>>, 1, k) :
        s0 \in Segment0, s1 \in Segment1, s2 \in Segment2, last \in LastSegment,
        k \in 1..4 }

\* the values handed to parseCode and quickValidate: values that are not
\* text, the empty text, and segment lists joined by '-' or (the lists with
\* at most one middle segment) by '_'
PastedValues ==
    { Undefined, Null, Num(5), Str(<<>>) }
    \cup { Str(join(segs, <<"-">>)) : segs \in SegmentLists(MaxMiddle) }
    \cup { Str(join(segs, <<"_">>)) : segs \in SegmentLists(1) }

\* the form before the user fills it in
EmptyInput ==
    [ brand |-> NoObj, product |-> NoObj, initialLength |-> Undefined,
      initialPeriod |-> Str(<<>>), discountAmount |-> Num(0),
      discountType |-> Str(<<>>), renewalType |-> Str(<<"E">>),
      renewalTerm |-> Str(<<>>), campaignText |-> Str(<<>>),
      codeType |-> Str(<<>>), price |-> Undefined, overridePrice |-> Undefined ]

-----------------------------------------------------------------------------
(* The services around the codec, before anything is asked of them *)

\* getCacheKey: the table name and the options of the call
Tables == {"Brands", "Products"}
CacheKeys == [table : Tables, noCache : BOOLEAN]

\* cache.get(cacheKey) of a key that was never set
NoEntry == [req |-> 0, fresh |-> FALSE]

\* AirtableService constructor: two empty maps
FetchIdle ==
    /\ cache = [k \in CacheKeys |-> NoEntry]
    /\ pendingRequests = [k \in CacheKeys |-> 0]
    /\ requests = <<>>
    /\ calls = <<>>

\* no performFetch call was made
RetryIdle ==
    /\ stack = <<>>
    /\ issued = [p \in 1..MaxPages |-> 0]
    /\ settled = "idle"

\* PromocodeModule constructor: isGenerating = false
ClickIdle ==
    /\ isGenerating = FALSE
    /\ generating = <<>>
    /\ clicks = 0
    /\ lastClick = "none"

\* ProductService constructor: no brand, no products
BrandIdle ==
    /\ currentBrandId = "null"
    /\ filteredProducts = {}
    /\ brandFetches = {}
    /\ selections = 0

ServicesIdle == FetchIdle /\ RetryIdle /\ ClickIdle /\ BrandIdle

-----------------------------------------------------------------------------
(* The state machine *)

NullResult ==
    [ isValid |-> FALSE, originalCode |-> <<>>, segments |-> <<>>,
      parsed |-> EmptyParsed, humanReadable |-> EmptyHuman,
      error |-> NoError, summary |-> <<>> ]

NoCall ==
    [ op |-> "none", status |-> "none", arg |-> Undefined, errors |-> <<>>,
      code |-> Null, result |-> NullResult, error |-> "", flag |-> FALSE,
      lookup |-> "none" ]

\* no parseCode call is suspended
NoInflight ==
    [ pc |-> "idle", code |-> Undefined, segments |-> <<>>,
      splitWith |-> NullRuleset, lookupOk |-> FALSE ]

\* The state after construction.  A behaviour either has an input for
\* generateCode and nothing pasted, or a pasted value and the empty form; the
\* parser reads only the separator of the ruleset.  The inputs with the most
\* changed fields are generated under the record that sets no field, the
\* others under every record.
Init ==
    /\ \/ /\ remote \in RemoteRulesets
          /\ form \in InputsWithin(MaxDeviations - 1)
          /\ pasted = Undefined
       \/ /\ remote = DefaultRecord
          /\ form \in Inputs
          /\ pasted = Undefined
       \/ /\ remote \in { r \in RemoteRulesets :
                            r.Casing = "" /\ r.Freetext_Max_Length = 0 }
          /\ form = EmptyInput
          /\ pasted \in PastedValues
    /\ genRuleset = NullRuleset
    /\ lastGeneratedCode = Null
    /\ history = <<>>
    /\ parserRuleset = NullRuleset
    /\ lastParsedCode = Null
    /\ lastParsedResult = NullResult
    /\ ret = NoCall
    /\ inflight = NoInflight
    /\ ServicesIdle

\* the history an earlier session left in localStorage: n codes, the newest
\* first, entry i generated with the price 100 + i
StoredHistory(n) ==
    [i \in 1..n |-> join(<< <<"A","P">>, <<"P","L","U","S">>,
                            <<"3","M","1","9","K">>, <<"T">>,
                            <<"M">> \o natToString(100 + i) >>, <<"-">>)]

StoredCodes == Range(StoredHistory(HISTORY_LIMIT))

\* the entries of the history that this session added
GeneratedEntries == SelectSeq(history, LAMBDA c : c \notin StoredCodes)

\* generateCode with the ruleset loaded before the inputs are validated
GenerateCode_loadFirst ==
    /\ Len(GeneratedEntries) < MaxGenerations
    /\ LET errors == validateInputs(form)
           ruleset == IF genRuleset = NullRuleset
                      THEN fetchPromocodeRuleset(remote) ELSE genRuleset
           promocode == promocodeOf(form, ruleset)
       IN  IF errors # <<>>
           THEN /\ ret' = [NoCall EXCEPT !.op = "generateCode", !.status = "thrown",
                                         !.errors = errors]
                /\ genRuleset' = ruleset
                /\ UNCHANGED <<lastGeneratedCode, history>>
           ELSE /\ genRuleset' = ruleset
                /\ lastGeneratedCode' = Str(promocode)
                /\ history' = saveToHistory(promocode, history)
                /\ ret' = [NoCall EXCEPT !.op = "generateCode", !.status = "returned",
                                         !.code = Str(promocode)]
    /\ UNCHANGED serviceVars
    /\ UNCHANGED <<remote, form, pasted, parserRuleset, lastParsedCode,
                   lastParsedResult, inflight>>

\* PromocodeGenerator.generateCode(form)
GenerateCode ==
    /\ Len(GeneratedEntries) < MaxGenerations
    /\ LET errors == validateInputs(form)
           ruleset == IF genRuleset = NullRuleset
                      THEN fetchPromocodeRuleset(remote) ELSE genRuleset
           promocode == promocodeOf(form, ruleset)
       IN  IF errors # <<>>
           THEN /\ ret' = [NoCall EXCEPT !.op = "generateCode", !.status = "thrown",
                                         !.errors = errors]
                /\ UNCHANGED <<genRuleset, lastGeneratedCode, history>>
           ELSE /\ genRuleset' = ruleset
                /\ lastGeneratedCode' = Str(promocode)
                /\ history' = saveToHistory(promocode, history)
                /\ ret' = [NoCall EXCEPT !.op = "generateCode", !.status = "returned",
                                         !.code = Str(promocode)]
    /\ UNCHANGED serviceVars
    /\ UNCHANGED <<remote, form, pasted, parserRuleset, lastParsedCode,
                   lastParsedResult, inflight>>

\* the values the user can hand to the parser: the pasted one, or the code
\* just generated
Candidates == {pasted} \cup (IF lastGeneratedCode = Null THEN {} ELSE {lastGeneratedCode})

\* PromocodeParser.parseCode(code); lookupOk tells whether the brand and
\* product services answered
ParseCode ==
    \E code \in Candidates, lookupOk \in BOOLEAN :
       LET ruleset == IF parserRuleset = NullRuleset
                      THEN fetchPromocodeRuleset(remote) ELSE parserRuleset
           segments == split(code.s, separatorOf(ruleset))
           call == [NoCall EXCEPT !.op = "parseCode", !.arg = code]
       IN  /\ IF ~Truthy(code) \/ code.t # "string"
              THEN /\ ret' = [call EXCEPT !.status = "thrown",
                                 !.error = "Invalid promocode: empty or not a string"]
                   /\ UNCHANGED <<parserRuleset, lastParsedCode, lastParsedResult>>
              ELSE IF insufficientSegments(segments)
              THEN /\ parserRuleset' = ruleset
                   /\ lastParsedCode' = code
                   /\ ret' = [call EXCEPT !.status = "thrown",
                                 !.error = "Invalid promocode format: insufficient segments"]
                   /\ UNCHANGED lastParsedResult
              ELSE /\ parserRuleset' = ruleset
                   /\ lastParsedCode' = code
                   /\ lastParsedResult' = parseSegments(code.s, segments, lookupOk, ruleset)
                   /\ ret' = [call EXCEPT !.status = "returned",
                                 !.result = parseSegments(code.s, segments, lookupOk, ruleset),
                                 !.lookup = IF lookupOk THEN "answered" ELSE "raised"]
           /\ UNCHANGED serviceVars
           /\ UNCHANGED <<remote, form, pasted, genRuleset, lastGeneratedCode, history,
                          inflight>>

\* PromocodeParser.quickValidate(code)
QuickValidate ==
    \E code \in Candidates :
       /\ ret' = [NoCall EXCEPT !.op = "quickValidate", !.status = "returned",
                                !.arg = code, !.flag = quickValidate(code, parserRuleset)]
       /\ UNCHANGED serviceVars
       /\ UNCHANGED <<remote, form, pasted, genRuleset, lastGeneratedCode, history,
                      parserRuleset, lastParsedCode, lastParsedResult, inflight>>

Next == GenerateCode \/ ParseCode \/ QuickValidate

Spec == Init /\ [][Next]_vars

-----------------------------------------------------------------------------
(* parseCode step by step: the call gives up control at await
   this.initialize(), await this.decodeBrand(..) and await
   this.decodeProduct(..), and the ruleset of the parser can be assigned
   while it waits *)

\* the codes handed to the parser while the ruleset is being replaced
AwaitedCodes ==
    { Undefined, Str(join(<< <<"A","P">>, <<"P","L","U","S">>,
                            <<"3","M","9","K">>, <<"M","2","4">> >>, <<"-">>)) }
    \cup { Str(join(<< <<"A","P">>, <<"P","L","U","S">>, offer, <<"T">> >>
                     \o mid \o << <<"M","2","4">> >>, sep)) :
             offer \in { <<"3","M","9","K">>, <<"3","D","9","K">> },
             mid \in { <<>>, << <<"W","B">> >> },
             sep \in { <<"-">>, <<"_">> } }

InitAwait ==
    /\ remote \in SwappedRulesets
    /\ form = EmptyInput
    /\ pasted \in AwaitedCodes
    /\ genRuleset = NullRuleset
    /\ lastGeneratedCode = Null
    /\ history = <<>>
    /\ parserRuleset = NullRuleset
    /\ lastParsedCode = Null
    /\ lastParsedResult = NullResult
    /\ ret = NoCall
    /\ inflight = NoInflight
    /\ ServicesIdle

\* lines 752-767 of parseCode: store the code, split it with the separator
\* of the ruleset the parser holds now, throw on fewer than 5 segments,
\* else go on to await decodeBrand
splitAndSuspend(code, ruleset) ==
    LET segments == split(code.s, separatorOf(ruleset))
        call == [NoCall EXCEPT !.op = "parseCode", !.arg = code]
    IN  /\ lastParsedCode' = code
        /\ IF insufficientSegments(segments)
           THEN /\ ret' = [call EXCEPT !.status = "thrown",
                              !.error = "Invalid promocode format: insufficient segments"]
                /\ inflight' = NoInflight
           ELSE /\ ret' = [call EXCEPT !.status = "pending"]
                /\ inflight' = [NoInflight EXCEPT !.pc = "awaitBrand", !.code = code,
                                                  !.segments = segments,
                                                  !.splitWith = ruleset]

\* parseCode(pasted) is called and runs to its first await
ParseCodeEnter ==
    /\ inflight.pc \in {"idle", "done"}
    /\ LET code == pasted
           call == [NoCall EXCEPT !.op = "parseCode", !.arg = code]
       IN  IF ~Truthy(code) \/ code.t # "string"
           THEN /\ ret' = [call EXCEPT !.status = "thrown",
                              !.error = "Invalid promocode: empty or not a string"]
                /\ inflight' = NoInflight
                /\ UNCHANGED lastParsedCode
           ELSE IF parserRuleset = NullRuleset
           THEN /\ ret' = [call EXCEPT !.status = "pending"]
                /\ inflight' = [NoInflight EXCEPT !.pc = "awaitInitialize",
                                                  !.code = code]
                /\ UNCHANGED lastParsedCode
           ELSE splitAndSuspend(code, parserRuleset)
    /\ UNCHANGED serviceVars
    /\ UNCHANGED <<remote, form, pasted, genRuleset, lastGeneratedCode, history,
                   parserRuleset, lastParsedResult>>

\* the initialize() that parseCode awaits completes: the ruleset fetched is
\* assigned and the call goes on to split
ParseCodeInitialized ==
    /\ inflight.pc = "awaitInitialize"
    /\ parserRuleset' = fetchPromocodeRuleset(remote)
    /\ splitAndSuspend(inflight.code, fetchPromocodeRuleset(remote))
    /\ UNCHANGED serviceVars
    /\ UNCHANGED <<remote, form, pasted, genRuleset, lastGeneratedCode, history,
                   lastParsedResult>>

\* await this.decodeBrand(..) completes
ParseCodeBrandDecoded ==
    /\ inflight.pc = "awaitBrand"
    /\ \E lookupOk \in BOOLEAN :
          inflight' = [inflight EXCEPT !.pc = "awaitProduct", !.lookupOk = lookupOk]
    /\ UNCHANGED serviceVars
    /\ UNCHANGED <<remote, form, pasted, genRuleset, lastGeneratedCode, history,
                   parserRuleset, lastParsedCode, lastParsedResult, ret>>

\* await this.decodeProduct(..) completes and the call runs to its end,
\* lines 784-847, reading this.ruleset as it is now
ParseCodeProductDecoded ==
    /\ inflight.pc = "awaitProduct"
    /\ LET result == parseSegments(inflight.code.s, inflight.segments,
                                   inflight.lookupOk, parserRuleset)
       IN  /\ lastParsedResult' = result
           /\ ret' = [NoCall EXCEPT !.op = "parseCode", !.arg = inflight.code,
                         !.status = "returned", !.result = result,
                         !.lookup = IF inflight.lookupOk THEN "answered" ELSE "raised"]
    /\ inflight' = [inflight EXCEPT !.pc = "done"]
    /\ UNCHANGED serviceVars
    /\ UNCHANGED <<remote, form, pasted, genRuleset, lastGeneratedCode, history,
                   parserRuleset, lastParsedCode>>

\* PromocodeParser.initialize(), called by the module, completes
Initialize ==
    /\ parserRuleset' = fetchPromocodeRuleset(remote)
    /\ UNCHANGED serviceVars
    /\ UNCHANGED <<remote, form, pasted, genRuleset, lastGeneratedCode, history,
                   lastParsedCode, lastParsedResult, ret, inflight>>

\* the active record of the Rulesets table is replaced by another
ReplaceRuleset ==
    /\ remote' \in SwappedRulesets \ {remote}
    /\ UNCHANGED serviceVars
    /\ UNCHANGED <<form, pasted, genRuleset, lastGeneratedCode, history,
                   parserRuleset, lastParsedCode, lastParsedResult, ret, inflight>>

NextAwait ==
    \/ ParseCodeEnter
    \/ ParseCodeInitialized
    \/ ParseCodeBrandDecoded
    \/ ParseCodeProductDecoded
    \/ Initialize
    \/ ReplaceRuleset

SpecAwait == InitAwait /\ [][NextAwait]_vars

-----------------------------------------------------------------------------
(* generateCode over a session in which the form is edited between the calls
   and localStorage holds the history of earlier sessions *)

\* what collectFormInputs yields as the fields of the form are edited
EditableForms ==
    { BaseInput, EmptyInput,
      [BaseInput EXCEPT !.price = Num(9)],
      [BaseInput EXCEPT !.codeType = Str(<<>>)],
      [BaseInput EXCEPT !.renewalType = Str(<<>>)] }

InitForm ==
    /\ remote \in { r \in RemoteRulesets :
                       r.Casing \in {"", "LOWER"} /\ r.Freetext_Max_Length = 0 }
    /\ form \in EditableForms
    /\ pasted = Undefined
    /\ genRuleset = NullRuleset
    /\ lastGeneratedCode = Null
    /\ history \in { <<>>, StoredHistory(HISTORY_LIMIT - 1),
                      StoredHistory(HISTORY_LIMIT) }
    /\ parserRuleset = NullRuleset
    /\ lastParsedCode = Null
    /\ lastParsedResult = NullResult
    /\ ret = NoCall
    /\ inflight = NoInflight
    /\ ServicesIdle

\* the user changes the fields of the form
EditForm ==
    /\ form' \in EditableForms \ {form}
    /\ UNCHANGED serviceVars
    /\ UNCHANGED <<remote, pasted, genRuleset, lastGeneratedCode, history,
                   parserRuleset, lastParsedCode, lastParsedResult, ret, inflight>>

NextForm == GenerateCode \/ EditForm

SpecForm == InitForm /\ [][NextForm]_vars

-----------------------------------------------------------------------------
(* AirtableService.fetchData: the calls, the requests they share, the cache *)

\* Config.FEATURES.USE_CACHE
USE_CACHE == TRUE

\* the codec takes no step while the services are exercised
CodecIdle ==
    /\ remote = DefaultRecord
    /\ form = EmptyInput
    /\ pasted = Undefined
    /\ genRuleset = NullRuleset
    /\ lastGeneratedCode = Null
    /\ history = <<>>
    /\ parserRuleset = NullRuleset
    /\ lastParsedCode = Null
    /\ lastParsedResult = NullResult
    /\ ret = NoCall
    /\ inflight = NoInflight

InitFetch == CodecIdle /\ FetchIdle /\ RetryIdle /\ ClickIdle /\ BrandIdle

\* isCacheValid: there is an entry and it is younger than CACHE_DURATION
isCacheValid(cacheEntry) == cacheEntry.req # 0 /\ cacheEntry.fresh

\* a fetchData call: its key, how it got hold of its data, whether it has
\* returned, the request it waits for or took its data from, its outcome
Call(k, role, pc, req, result) ==
    [key |-> k, role |-> role, pc |-> pc, req |-> req, result |-> result]

\* fetchData up to its first await or return, lines 94-121
FetchData ==
    /\ Len(calls) < MaxCalls
    /\ \E k \in CacheKeys :
          IF USE_CACHE /\ ~k.noCache /\ isCacheValid(cache[k])
          THEN /\ calls' = Append(calls, Call(k, "cached", "done", cache[k].req,
                                              "fulfilled"))
               /\ UNCHANGED <<cache, pendingRequests, requests>>
          ELSE IF pendingRequests[k] # 0
          THEN /\ calls' = Append(calls, Call(k, "shared", "waiting",
                                              pendingRequests[k], "none"))
               /\ UNCHANGED <<cache, pendingRequests, requests>>
          ELSE /\ requests' = Append(requests, [key |-> k, state |-> "pending"])
               /\ pendingRequests' = [pendingRequests EXCEPT ![k] = Len(requests) + 1]
               /\ calls' = Append(calls, Call(k, "owner", "waiting",
                                              Len(requests) + 1, "none"))
               /\ UNCHANGED cache
    /\ UNCHANGED <<codecVars, retryVars, clickVars, brandVars>>

\* the promise of performFetch fulfils or rejects
PerformFetchSettles ==
    /\ \E r \in 1..Len(requests), outcome \in {"fulfilled", "rejected"} :
          /\ requests[r].state = "pending"
          /\ requests' = [requests EXCEPT ![r].state = outcome]
    /\ UNCHANGED <<cache, pendingRequests, calls>>
    /\ UNCHANGED <<codecVars, retryVars, clickVars, brandVars>>

\* the rest of fetchData with the finally block left out when the request
\* rejected
FetchDataResumes_deleteOnSuccess ==
    /\ \E c \in 1..Len(calls) :
          LET call == calls[c]
              request == requests[call.req]
          IN  /\ call.role = "owner"
              /\ call.pc = "waiting"
              /\ request.state # "pending"
              /\ cache' = IF request.state = "fulfilled" /\ USE_CACHE
                          THEN [cache EXCEPT ![call.key] =
                                    [req |-> call.req, fresh |-> TRUE]]
                          ELSE cache
              /\ pendingRequests' = IF request.state = "fulfilled"
                                    THEN [pendingRequests EXCEPT ![call.key] = 0]
                                    ELSE pendingRequests
              /\ calls' = [calls EXCEPT ![c].pc = "done",
                                        ![c].result = request.state]
    /\ UNCHANGED requests
    /\ UNCHANGED <<codecVars, retryVars, clickVars, brandVars>>

\* the rest of fetchData in the call that made the request, lines 120-134:
\* the await ends, a fulfilled request is cached, the key leaves
\* pendingRequests
FetchDataResumes ==
    /\ \E c \in 1..Len(calls) :
          LET call == calls[c]
              request == requests[call.req]
          IN  /\ call.role = "owner"
              /\ call.pc = "waiting"
              /\ request.state # "pending"
              /\ cache' = IF request.state = "fulfilled" /\ USE_CACHE
                          THEN [cache EXCEPT ![call.key] =
                                    [req |-> call.req, fresh |-> TRUE]]
                          ELSE cache
              /\ pendingRequests' = [pendingRequests EXCEPT ![call.key] = 0]
              /\ calls' = [calls EXCEPT ![c].pc = "done",
                                        ![c].result = request.state]
    /\ UNCHANGED requests
    /\ UNCHANGED <<codecVars, retryVars, clickVars, brandVars>>

\* a call that was handed the pending promise (line 113) gets its outcome
SharedCallSettles ==
    /\ \E c \in 1..Len(calls) :
          LET call == calls[c]
              request == requests[call.req]
          IN  /\ call.role = "shared"
              /\ call.pc = "waiting"
              /\ request.state # "pending"
              /\ calls' = [calls EXCEPT ![c].pc = "done",
                                        ![c].result = request.state]
    /\ UNCHANGED <<cache, pendingRequests, requests>>
    /\ UNCHANGED <<codecVars, retryVars, clickVars, brandVars>>

\* CACHE_DURATION passes for an entry of the cache
CacheExpires ==
    /\ \E k \in CacheKeys :
          /\ cache[k].fresh
          /\ cache' = [cache EXCEPT ![k].fresh = FALSE]
    /\ UNCHANGED <<pendingRequests, requests, calls>>
    /\ UNCHANGED <<codecVars, retryVars, clickVars, brandVars>>

NextFetch ==
    \/ FetchData
    \/ PerformFetchSettles
    \/ FetchDataResumes
    \/ SharedCallSettles
    \/ CacheExpires

SpecFetch == InitFetch /\ [][NextFetch]_vars

-----------------------------------------------------------------------------
(* AirtableService.performFetch: one call on a table of up to MaxPages pages.
   Frame p of the stack is the performFetch call reading page p; it holds the
   retryCount of that call *)

\* Config.API.RETRY_ATTEMPTS
RETRY_ATTEMPTS == 3

InitRetry == CodecIdle /\ FetchIdle /\ RetryIdle /\ ClickIdle /\ BrandIdle

\* the catch block, lines 181-198, run in the innermost frame and then in
\* each frame the error is thrown on to: a frame that may retry calls
\* performFetch again for its own page with retryCount + 1, any other frame
\* rethrows to the frame that awaits it; <<>> when the outermost frame
\* rethrows
RECURSIVE catchError(_, _)
catchError(frames, retriable) ==
    IF frames = <<>> THEN <<>>
    ELSE LET retryCount == frames[Len(frames)]
         IN  IF retryCount < RETRY_ATTEMPTS /\ retriable
             THEN [frames EXCEPT ![Len(frames)] = retryCount + 1]
             ELSE catchError(SubSeq(frames, 1, Len(frames) - 1), retriable)

\* fetchData calls performFetch(tableName, options)
PerformFetch ==
    /\ settled = "idle"
    /\ stack' = <<0>>
    /\ settled' = "pending"
    /\ UNCHANGED issued
    /\ UNCHANGED <<codecVars, fetchVars, clickVars, brandVars>>

\* the innermost frame issues its HTTP request, lines 147-179, and the
\* response is handled: a page with an offset makes the frame call
\* performFetch for the next page, the last page makes every frame return,
\* an error goes to the catch blocks ("invalid" is an error whose message
\* includes '422' or 'INVALID_FILTER')
HttpRequest ==
    /\ settled = "pending"
    /\ LET page == Len(stack)
       IN  /\ issued' = [issued EXCEPT ![page] = issued[page] + 1]
           /\ \E response \in {"last", "error", "invalid"}
                                \cup (IF page < MaxPages THEN {"offset"} ELSE {}) :
                 CASE response = "offset" ->
                        /\ stack' = Append(stack, 0)
                        /\ UNCHANGED settled
                   [] response = "last" ->
                        /\ stack' = <<>>
                        /\ settled' = "fulfilled"
                   [] OTHER ->
                        LET frames == catchError(stack, response = "error")
                        IN  /\ stack' = frames
                            /\ settled' = IF frames = <<>> THEN "rejected"
                                          ELSE "pending"
    /\ UNCHANGED <<codecVars, fetchVars, clickVars, brandVars>>

NextRetry == PerformFetch \/ HttpRequest

SpecRetry == InitRetry /\ [][NextRetry]_vars

-----------------------------------------------------------------------------
(* PromocodeModule.handleGenerate: clicks on the generate button while the
   form is edited; generateCode gives up control at await this.initialize()
   when the generator has no ruleset yet *)

\* collectFormInputs throws: no brand, no product, no length, no period, no
\* discount type, no renewal term, or neither override price nor rate plan
collectThrows(inputs) ==
    \/ ~inputs.brand.isObj
    \/ ~inputs.product.isObj
    \/ ~Truthy(inputs.initialLength)
    \/ ~Truthy(inputs.initialPeriod)
    \/ ~Truthy(inputs.discountType)
    \/ ~Truthy(inputs.renewalTerm)
    \/ (~Truthy(inputs.overridePrice) /\ inputs.price = Undefined)

\* the form at the time of a click: filled in, empty, filled in with a brand
\* that has no code, filled in with another price
ClickForms ==
    { BaseInput, EmptyInput,
      [BaseInput EXCEPT !.brand = Obj(Undefined, Undefined, Str(<<"A","f","t">>))],
      [BaseInput EXCEPT !.price = Num(9)] }

InitClick ==
    /\ remote \in { r \in RemoteRulesets :
                       r.Casing \in {"", "LOWER"} /\ r.Freetext_Max_Length = 0 }
    /\ form \in ClickForms
    /\ pasted = Undefined
    /\ genRuleset = NullRuleset
    /\ lastGeneratedCode = Null
    /\ history = <<>>
    /\ parserRuleset = NullRuleset
    /\ lastParsedCode = Null
    /\ lastParsedResult = NullResult
    /\ ret = NoCall
    /\ inflight = NoInflight
    /\ ServicesIdle

\* handleGenerate without the test of isGenerating
HandleGenerate_noGuard ==
    /\ clicks < MaxClicks
    /\ clicks' = clicks + 1
    /\ IF collectThrows(form)
       THEN /\ lastClick' = "collectThrew"
            /\ isGenerating' = FALSE
            /\ UNCHANGED <<generating, genRuleset, lastGeneratedCode, history, ret>>
       ELSE IF validateInputs(form) # <<>>
       THEN /\ lastClick' = "validationFailed"
            /\ isGenerating' = FALSE
            /\ ret' = [NoCall EXCEPT !.op = "generateCode", !.status = "thrown",
                                     !.errors = validateInputs(form)]
            /\ UNCHANGED <<generating, genRuleset, lastGeneratedCode, history>>
       ELSE IF genRuleset = NullRuleset
       THEN /\ lastClick' = "suspended"
            /\ isGenerating' = TRUE
            /\ generating' = Append(generating, form)
            /\ UNCHANGED <<genRuleset, lastGeneratedCode, history, ret>>
       ELSE LET promocode == promocodeOf(form, genRuleset)
            IN  /\ lastClick' = "generated"
                /\ isGenerating' = FALSE
                /\ lastGeneratedCode' = Str(promocode)
                /\ history' = saveToHistory(promocode, history)
                /\ ret' = [NoCall EXCEPT !.op = "generateCode",
                                         !.status = "returned",
                                         !.code = Str(promocode)]
                /\ UNCHANGED <<generating, genRuleset>>
    /\ UNCHANGED <<remote, form, pasted, parserRuleset, lastParsedCode,
                   lastParsedResult, inflight>>
    /\ UNCHANGED <<fetchVars, retryVars, brandVars>>

\* handleGenerate, lines 319-353, up to the point where it gives up control
\* to something other than its own continuation: it returns at once while
\* isGenerating is set; otherwise it sets isGenerating, collects the inputs
\* and calls generateCode, and the finally block resets isGenerating unless
\* generateCode is left waiting for initialize()
HandleGenerate ==
    /\ clicks < MaxClicks
    /\ clicks' = clicks + 1
    /\ IF isGenerating
       THEN /\ lastClick' = "ignored"
            /\ UNCHANGED <<isGenerating, generating, genRuleset, lastGeneratedCode,
                           history, ret>>
       ELSE IF collectThrows(form)
       THEN /\ lastClick' = "collectThrew"
            /\ isGenerating' = FALSE
            /\ UNCHANGED <<generating, genRuleset, lastGeneratedCode, history, ret>>
       ELSE IF validateInputs(form) # <<>>
       THEN /\ lastClick' = "validationFailed"
            /\ isGenerating' = FALSE
            /\ ret' = [NoCall EXCEPT !.op = "generateCode", !.status = "thrown",
                                     !.errors = validateInputs(form)]
            /\ UNCHANGED <<generating, genRuleset, lastGeneratedCode, history>>
       ELSE IF genRuleset = NullRuleset
       THEN /\ lastClick' = "suspended"
            /\ isGenerating' = TRUE
            /\ generating' = Append(generating, form)
            /\ UNCHANGED <<genRuleset, lastGeneratedCode, history, ret>>
       ELSE LET promocode == promocodeOf(form, genRuleset)
            IN  /\ lastClick' = "generated"
                /\ isGenerating' = FALSE
                /\ lastGeneratedCode' = Str(promocode)
                /\ history' = saveToHistory(promocode, history)
                /\ ret' = [NoCall EXCEPT !.op = "generateCode",
                                         !.status = "returned",
                                         !.code = Str(promocode)]
                /\ UNCHANGED <<generating, genRuleset>>
    /\ UNCHANGED <<remote, form, pasted, parserRuleset, lastParsedCode,
                   lastParsedResult, inflight>>
    /\ UNCHANGED <<fetchVars, retryVars, brandVars>>

\* initialize() completes in a suspended generateCode call: the code is
\* built from the inputs collected at the click, stored and displayed, and
\* the finally block of handleGenerate resets isGenerating
GenerateCodeResumes ==
    /\ generating # <<>>
    /\ LET inputs == Head(generating)
           ruleset == IF genRuleset = NullRuleset
                      THEN fetchPromocodeRuleset(remote) ELSE genRuleset
           promocode == promocodeOf(inputs, ruleset)
       IN  /\ genRuleset' = ruleset
           /\ lastGeneratedCode' = Str(promocode)
           /\ history' = saveToHistory(promocode, history)
           /\ ret' = [NoCall EXCEPT !.op = "generateCode", !.status = "returned",
                                    !.code = Str(promocode)]
    /\ generating' = Tail(generating)
    /\ isGenerating' = FALSE
    /\ UNCHANGED <<clicks, lastClick>>
    /\ UNCHANGED <<remote, form, pasted, parserRuleset, lastParsedCode,
                   lastParsedResult, inflight>>
    /\ UNCHANGED <<fetchVars, retryVars, brandVars>>

\* the user changes the fields of the form between clicks
EditClickForm ==
    /\ form' \in ClickForms \ {form}
    /\ UNCHANGED <<remote, pasted, genRuleset, lastGeneratedCode, history,
                   parserRuleset, lastParsedCode, lastParsedResult, ret, inflight>>
    /\ UNCHANGED serviceVars

NextClick == HandleGenerate \/ GenerateCodeResumes \/ EditClickForm

SpecClick == InitClick /\ [][NextClick]_vars

-----------------------------------------------------------------------------
(* PromocodeModule.handleBrandChange and ProductService.fetchProductsByBrand:
   the user selects brands while earlier product fetches are still waiting.
   AirtableService.fetchProductsByBrand ends with a request of its own for
   the brand record (fetchBrandById) whenever the cached brands are stale, so
   the fetches of two selections complete in either order *)

\* the record ids of the brands in the dropdown
BrandIds == {"recA", "recB"}

\* what AirtableService.fetchProductsByBrand returns for a brand: its
\* products, each with brandIds = [brandId]
ProductsOf(brandId) == { [id |-> n, brandIds |-> <<brandId>>] : n \in 1..2 }

InitBrand == CodecIdle /\ FetchIdle /\ RetryIdle /\ ClickIdle /\ BrandIdle

\* handleBrandChange(brandId) up to await fetchProductsByBrand: the empty
\* option only clears the dropdowns; a brand is recorded in currentBrandId
\* (productService.js line 69) and its products are requested
HandleBrandChange ==
    /\ selections < MaxSelections
    /\ selections' = selections + 1
    /\ \E brandId \in BrandIds \cup {""} :
          IF brandId = ""
          THEN UNCHANGED <<currentBrandId, filteredProducts, brandFetches>>
          ELSE /\ currentBrandId' = brandId
               /\ brandFetches' = brandFetches \cup
                                     {[n |-> selections + 1, brandId |-> brandId]}
               /\ UNCHANGED filteredProducts
    /\ UNCHANGED <<codecVars, fetchVars, retryVars, clickVars>>

\* the await of line 76 ends: filteredProducts is assigned what the fetch of
\* that call returned, the products of its brand or, when Airtable failed,
\* the empty list
FetchProductsCompletes ==
    /\ \E fetch \in brandFetches, answered \in BOOLEAN :
          /\ filteredProducts' = IF answered THEN ProductsOf(fetch.brandId) ELSE {}
          /\ brandFetches' = brandFetches \ {fetch}
    /\ UNCHANGED <<currentBrandId, selections>>
    /\ UNCHANGED <<codecVars, fetchVars, retryVars, clickVars>>

NextBrand == HandleBrandChange \/ FetchProductsCompletes

SpecBrand == InitBrand /\ [][NextBrand]_vars

-----------------------------------------------------------------------------
(* Vocabulary of the properties *)

SameText(a, b) == toUpperCase(a) = toUpperCase(b)

IsWhole(v) == v.t = "number" /\ v.n % 10 = 0

\* neither undefined, nor null, nor the empty string
Usable(v) == v # Undefined /\ v # Null /\ v # Str(<<>>)

\* the one price the input carries
InputPrice(inputs) == IF Usable(inputs.price) THEN inputs.price ELSE inputs.overridePrice

\* an input of the data model: whole numbers, the letters of the maps, one price
CleanInput(inputs) ==
    /\ validateInputs(inputs) = <<>>
    /\ Truthy(inputs.product.code)
    /\ IsWhole(inputs.initialLength)
    /\ toUpperCase(inputs.initialPeriod.s) \in { <<"M">>, <<"U">>, <<"Q">>, <<"Y">> }
    /\ IsWhole(inputs.discountAmount)
    /\ toUpperCase(inputs.discountType.s) \in { <<"K">>, <<"P">> }
    /\ toUpperCase(inputs.renewalType.s) \in { <<"T">>, <<"E">> }
    /\ toUpperCase(inputs.renewalTerm.s) \in { <<"M">>, <<"Q">>, <<"Y">>, <<"U">> }
    /\ Usable(inputs.price) # Usable(inputs.overridePrice)
    /\ IsWhole(InputPrice(inputs)) /\ InputPrice(inputs).n >= 0

Generated == ret.op = "generateCode" /\ ret.status = "returned"
GenerateFailed == ret.op = "generateCode" /\ ret.status = "thrown"
Parsed == ret.op = "parseCode" /\ ret.status = "returned"
ParseThrew == ret.op = "parseCode" /\ ret.status = "thrown"
\* the last call decoded the code that generateCode returned for the form
ParsedGenerated ==
    /\ ret.op = "parseCode"
    /\ lastGeneratedCode # Null
    /\ ret.arg = lastGeneratedCode

-----------------------------------------------------------------------------
(* C1 *)

Recovers(inputs, parsed) ==
    /\ SameText(parsed.brand.s, inputs.brand.code.s)
    /\ SameText(parsed.product.s, inputs.product.code.s)
    /\ parsed.initialLength = inputs.initialLength
    /\ SameText(parsed.initialPeriod.s, inputs.initialPeriod.s)
    /\ parsed.discountAmount = inputs.discountAmount
    /\ SameText(parsed.discountType.s, inputs.discountType.s)
    /\ SameText(parsed.renewalType.s, inputs.renewalType.s)
    /\ SameText(parsed.codeType.s, inputs.codeType.s)
    /\ SameText(parsed.renewalTerm.s, inputs.renewalTerm.s)
    /\ parsed.price = InputPrice(inputs)

RoundTripCase ==
    /\ ParsedGenerated
    /\ CleanInput(form)
    /\ isCodeType(form.codeType.s)
    /\ ~Truthy(form.campaignText)

\* C1: decoding the code generated for an input of the data model that has a
\* code type and no campaign text gives a valid result whose parsed record
\* recovers the fields of the input, ignoring letter case, under every casing
\* of the ruleset.
C1_RoundTrip ==
    RoundTripCase =>
        /\ ret.status = "returned"
        /\ ret.result.isValid
        /\ Recovers(form, ret.result.parsed)

-----------------------------------------------------------------------------
(* C2 *)

\* C2: parseCode never throws; every call returns a result object.
C2_DecodeNeverThrows == ret.op = "parseCode" => ret.status = "returned"

-----------------------------------------------------------------------------
(* C3 *)

\* the messages of the required-field rules that the input breaks
ViolatedRules(inputs) ==
    { m \in {
        IF ~inputs.brand.isObj \/ ~Usable(inputs.brand.code)
            THEN "Brand is required" ELSE "",
        IF ~inputs.product.isObj THEN "Product is required" ELSE "",
        IF ~(inputs.initialLength.t = "number" /\ inputs.initialLength.n > 0)
            THEN "Initial offer length must be greater than 0" ELSE "",
        IF ~Usable(inputs.initialPeriod) THEN "Initial offer period is required" ELSE "",
        IF ~(inputs.discountAmount.t = "number" /\ inputs.discountAmount.n >= 0)
            THEN "Discount amount must be 0 or greater" ELSE "",
        IF ~Usable(inputs.discountType) THEN "Discount type is required" ELSE "",
        IF ~Usable(inputs.renewalType) THEN "Renewal type is required" ELSE "",
        IF ~Usable(inputs.renewalTerm) THEN "Renewal term is required" ELSE "",
        IF ~Usable(inputs.price) /\ ~Usable(inputs.overridePrice)
            THEN "Price is required (select a rate plan or enter override price)"
            ELSE "" } : m # "" }

\* C3: a generateCode call on an input that breaks k >= 1 required-field rules
\* throws one error that lists exactly the k broken rules, and returns no code.
C3_AllViolationsReported ==
    (ret.op = "generateCode" /\ ViolatedRules(form) # {}) =>
        /\ ret.status = "thrown"
        /\ ret.code = Null
        /\ Range(ret.errors) = ViolatedRules(form)
        /\ Len(ret.errors) = Cardinality(ViolatedRules(form))

-----------------------------------------------------------------------------
(* C4 *)

Opt(seg) == IF seg # <<>> THEN <<seg>> ELSE <<>>

\* the present segments in the order of the wire format
WireSegments(inputs, ruleset) ==
       Opt(generateBrandSegment(inputs.brand))
    \o Opt(generateProductSegment(inputs.product))
    \o << generateInitialOfferSegment(inputs.initialLength, inputs.initialPeriod,
                                      inputs.discountAmount, inputs.discountType) >>
    \o << generateRenewalTypeSegment(inputs.renewalType) >>
    \o Opt(generateFreetextSegment(inputs.campaignText, ruleset))
    \o Opt(generateCodeTypeSegment(inputs.codeType))
    \o << generateRenewalPlanSegment(inputs.renewalTerm,
                                     OrElse(inputs.price, inputs.overridePrice)) >>

\* C4: the code generateCode returns is, ignoring letter case, the present
\* segments joined by the separator of the ruleset in the order brand,
\* product, initial offer, renewal type, freetext, code type, renewal plan;
\* the renewal plan is its last segment.
C4_WireFormat ==
    Generated =>
        LET segs == split(ret.code.s, genRuleset.separator)
        IN  /\ SameText(ret.code.s,
                        join(WireSegments(form, genRuleset), genRuleset.separator))
            /\ SameText(segs[Len(segs)],
                        generateRenewalPlanSegment(form.renewalTerm,
                            OrElse(form.price, form.overridePrice)))

\* a code was generated with both a freetext and a code-type segment
C4_Witness ==
    /\ Generated
    /\ generateFreetextSegment(form.campaignText, genRuleset) # <<>>
    /\ generateCodeTypeSegment(form.codeType) # <<>>

-----------------------------------------------------------------------------
(* C5 *)

ParsedText == ret.op = "parseCode" /\ ret.arg.t = "string" /\ ret.arg.s # <<>>

\* C5: a text of fewer than 5 segments fails with the insufficient-segments
\* error; a text of exactly 5 segments whose segment 2 matches the
\* initial-offer pattern and whose segment 4 matches the renewal-plan pattern
\* decodes as valid, with neither campaign text nor code type.
C5_SegmentBoundary ==
    ParsedText =>
        LET segs == split(ret.arg.s, separatorOf(parserRuleset))
        IN  /\ Len(segs) < 5 =>
                  /\ ret.status = "thrown"
                  /\ ret.error = "Invalid promocode format: insufficient segments"
            /\ (/\ Len(segs) = 5
                /\ matchInitialOffer(segs[3]).ok
                /\ matchRenewalPlan(segs[5]).ok) =>
                  /\ ret.status = "returned"
                  /\ ret.result.isValid
                  /\ ret.result.parsed.campaignText = Undefined
                  /\ ret.result.parsed.codeType = Undefined

\* a text of exactly 4 segments was handed to parseCode
C5_Witness ==
    /\ ParsedText
    /\ Len(split(ret.arg.s, separatorOf(parserRuleset))) = 4
    /\ ret.status = "thrown"

-----------------------------------------------------------------------------
(* C6 *)

\* the lengths a of a first run of digits with which seg reads as
\* digits, period letter, digits, discount-type letter
OfferSplits(seg) ==
    { a \in 1..(Len(seg) - 3) :
        /\ \A i \in 1..a : IsDigit(seg[i])
        /\ seg[a + 1] \in {"M", "U", "Q", "Y"}
        /\ \A i \in (a + 2)..(Len(seg) - 1) : IsDigit(seg[i])
        /\ seg[Len(seg)] \in {"K", "P"} }

\* C6: when segment 2 matches the initial-offer pattern the parsed length,
\* period, discount and discount type are its four parts; when it does not,
\* the result is invalid, the error carries the segment text, and no field
\* after the initial offer is populated.
C6_InitialOffer ==
    Parsed =>
        LET seg == ret.result.segments[3]
            parsed == ret.result.parsed
        IN  IF OfferSplits(seg) # {}
            THEN \A a \in OfferSplits(seg) :
                    /\ parsed.initialLength = Num(parseInt(SubSeq(seg, 1, a)))
                    /\ parsed.initialPeriod = Str(<<seg[a + 1]>>)
                    /\ parsed.discountAmount =
                           Num(parseInt(SubSeq(seg, a + 2, Len(seg) - 1)))
                    /\ parsed.discountType = Str(<<seg[Len(seg)]>>)
            ELSE /\ ~ret.result.isValid
                 /\ ret.result.error.segment = seg
                 /\ ret.result.error.message = "Invalid initial offer format: "
                 /\ parsed.renewalType = Undefined
                 /\ parsed.renewalPlan = Undefined
                 /\ parsed.renewalTerm = Undefined
                 /\ parsed.price = Undefined
                 /\ parsed.codeType = Undefined
                 /\ parsed.campaignText = Undefined

\* a text of 5 or more segments whose segment 2 does not match was decoded
C6_Witness ==
    /\ Parsed
    /\ OfferSplits(ret.result.segments[3]) = {}
    /\ ~ret.result.isValid

-----------------------------------------------------------------------------
(* C7 *)

\* seg reads as a term letter followed by digits
PlanShape(seg) ==
    /\ Len(seg) >= 2
    /\ seg[1] \in {"M", "Q", "Y", "U"}
    /\ \A i \in 2..Len(seg) : IsDigit(seg[i])

\* C7: the renewal term and price of a valid result are those of the last
\* segment, and a text whose last segment does not match the renewal-plan
\* pattern is invalid, whatever its earlier segments are.
C7_RenewalPlanAtEnd ==
    Parsed =>
        LET segs == ret.result.segments
            last == segs[Len(segs)]
            parsed == ret.result.parsed
        IN  /\ ret.result.isValid =>
                  /\ PlanShape(last)
                  /\ parsed.renewalPlan = Str(last)
                  /\ parsed.renewalTerm = Str(<<last[1]>>)
                  /\ parsed.price = Num(parseInt(Tail(last)))
            /\ ~PlanShape(last) => ~ret.result.isValid

\* a decoded text has a middle segment that matches the renewal-plan
\* pattern and a last segment that does not
C7_Witness ==
    /\ Parsed
    /\ OfferSplits(ret.result.segments[3]) # {}
    /\ \E i \in 5..(Len(ret.result.segments) - 1) : PlanShape(ret.result.segments[i])
    /\ ~PlanShape(ret.result.segments[Len(ret.result.segments)])
    /\ ~ret.result.isValid

-----------------------------------------------------------------------------
(* C8 *)

\* C8: generateCode fails validation whenever neither the price nor the
\* override price of the input is usable.
C8_PriceRequired ==
    (ret.op = "generateCode" /\ ~Usable(form.price) /\ ~Usable(form.overridePrice))
        => ret.status = "thrown"

-----------------------------------------------------------------------------
(* C9 *)

ZeroDiscount(inputs) == inputs.discountAmount = Num(0)

\* the one price the input carries is 0
ZeroPrice(inputs) ==
    \/ inputs.price = Num(0) /\ inputs.overridePrice = Undefined
    \/ inputs.overridePrice = Num(0) /\ inputs.price = Undefined

\* the casing pass leaves the code in upper case
UpperCasing(ruleset) == ruleset.casing \notin {"LOWER", "CAMEL", "KEBAB"}

-----------------------------------------------------------------------------
(* C10 *)

\* C10: quickValidate returns false exactly when its argument is not a
\* non-empty text, or is shorter than 15 characters, or holds fewer than 4
\* separators.
C10_QuickValidate ==
    ret.op = "quickValidate" =>
        (ret.flag = FALSE <=>
            \/ ret.arg.t # "string"
            \/ ret.arg.s = <<>>
            \/ Len(ret.arg.s) < 15
            \/ Len(split(ret.arg.s, separatorOf(parserRuleset))) - 1 < 4)

\* quickValidate accepted a text of exactly 15 characters
C10_Witness ==
    /\ ret.op = "quickValidate"
    /\ ret.arg.t = "string"
    /\ Len(ret.arg.s) = 15
    /\ ret.flag

-----------------------------------------------------------------------------
(* C11 *)

KnownBrand(code) == \E b \in Brands : b.code = code
KnownProduct(code) == \E q \in Products : q.code = code

\* the display value is the raw segment text
RawDisplay(display, segment) == display = [name |-> "", code |-> segment]

\* C11: in every result parseCode returns, a brand (product) segment that the
\* lookup does not know, or whose lookup raised, is displayed as the raw
\* segment text, and the result is valid exactly when segment 2 matches the
\* initial offer pattern and the last segment the renewal plan pattern,
\* whatever the lookups did.
C11_LookupNeverFails ==
    Parsed =>
        LET segs == ret.result.segments
            human == ret.result.humanReadable
        IN  /\ (ret.lookup = "raised" \/ ~KnownBrand(segs[1]))
                   => RawDisplay(human.brand, segs[1])
            /\ (ret.lookup = "raised" \/ ~KnownProduct(segs[2]))
                   => RawDisplay(human.product, segs[2])
            /\ ret.result.isValid
                   = (matchInitialOffer(segs[3]).ok
                      /\ matchRenewalPlan(segs[Len(segs)]).ok)

\* a valid decode of a code with a known brand whose lookups raised
C11_Witness ==
    /\ Parsed
    /\ ret.lookup = "raised"
    /\ KnownBrand(ret.result.segments[1])
    /\ RawDisplay(ret.result.humanReadable.brand, ret.result.segments[1])
    /\ RawDisplay(ret.result.humanReadable.product, ret.result.segments[2])
    /\ ret.result.isValid

-----------------------------------------------------------------------------
(* C12 *)

\* the text uppercased, without the characters outside A-Z and 0-9
Sanitized(text) ==
    SelectSeq([i \in 1..Len(text) |-> UpperChar(text[i])],
              LAMBDA c : IsUpper(c) \/ IsDigit(c))

\* the first max characters of the sanitized text
FreetextOf(text, max) ==
    IF Len(Sanitized(text)) <= max THEN Sanitized(text)
    ELSE [i \in 1..max |-> Sanitized(text)[i]]

\* number of segments ahead of the freetext: brand, product, offer, type
SegmentsAhead(inputs) ==
    Len(Opt(generateBrandSegment(inputs.brand))
        \o Opt(generateProductSegment(inputs.product))) + 2

\* C12: in every code generateCode returns, no segment between separators is
\* empty; when the campaign text, uppercased, stripped to A-Z and 0-9 and cut
\* to the freetextMaxLength of the ruleset, is not empty it is the segment
\* that follows the renewal type, and when it is empty the code has no
\* segment for it.
C12_FreetextSegment ==
    Generated =>
        LET segs == split(toUpperCase(ret.code.s), separatorOf(genRuleset))
            wanted == FreetextOf(form.campaignText.s, genRuleset.freetextMaxLength)
            ahead == SegmentsAhead(form)
        IN  /\ \A i \in 1..Len(segs) : segs[i] # <<>>
            /\ Len(segs) = ahead + Len(Opt(wanted))
                              + Len(Opt(generateCodeTypeSegment(form.codeType))) + 1
            /\ wanted # <<>> => segs[ahead + 1] = wanted

\* a code was generated for a campaign text that had symbols to strip and
\* more characters than the ruleset allows
C12_Witness ==
    /\ Generated
    /\ Len(Sanitized(form.campaignText.s)) < Len(form.campaignText.s)
    /\ Len(Sanitized(form.campaignText.s)) > genRuleset.freetextMaxLength
    /\ split(toUpperCase(ret.code.s), separatorOf(genRuleset))[SegmentsAhead(form) + 1]
           = FreetextOf(form.campaignText.s, genRuleset.freetextMaxLength)

-----------------------------------------------------------------------------
(* C13 *)

RecognisedCasings == {"UPPER", "LOWER", "CAMEL", "KEBAB"}

\* casing values outside the four, the absent ones among them
OtherCasings == {"TITLE", "upper", "", "undefined", "null"}

\* the texts casing is tried on: the joined segments, the code returned and
\* the code in lower case
CasingTexts ==
    { join(generateSegments(form, genRuleset), separatorOf(genRuleset)),
      ret.code.s,
      toLowerCase(ret.code.s) }

\* C13: applyCasing(s, 'UPPER') is s uppercased, and for a casing value
\* outside UPPER, LOWER, CAMEL and KEBAB (an absent value included)
\* applyCasing returns what it returns for 'UPPER'; so the code generated
\* under such a ruleset is the joined segments uppercased.
C13_DefaultCasing ==
    Generated =>
        /\ \A s \in CasingTexts :
              /\ applyCasing(s, "UPPER") = toUpperCase(s)
              /\ \A c \in OtherCasings : applyCasing(s, c) = applyCasing(s, "UPPER")
        /\ genRuleset.casing \notin RecognisedCasings \ {"UPPER"} =>
              ret.code.s = toUpperCase(join(generateSegments(form, genRuleset),
                                            separatorOf(genRuleset)))

\* a code was generated under a ruleset whose casing is none of the four
C13_Witness ==
    /\ Generated
    /\ genRuleset.casing \notin RecognisedCasings
    /\ ret.code.s = applyCasing(toLowerCase(ret.code.s), "UPPER")
    /\ toLowerCase(ret.code.s) # ret.code.s

-----------------------------------------------------------------------------
(* C14 *)

-----------------------------------------------------------------------------
(* C15 *)

\* a step in which generateCode returned: the only steps that store a code
GenerateReturns == history' # history

\* C15: a generateCode call that returns leaves the ruleset and the
\* last-generated code of the generator as they were, and adds one entry to
\* the stored history.
C15_OnlyHistoryChanges ==
    [][GenerateReturns =>
          /\ genRuleset' = genRuleset
          /\ lastGeneratedCode' = lastGeneratedCode
          /\ Len(history') = Len(history) + 1]_vars

-----------------------------------------------------------------------------
(* C16 *)

\* C16: the result of a parseCode call that was suspended at its awaits is
\* the result of decoding the segments it split with the ruleset it split
\* them with, whatever was assigned to the ruleset of the parser while the
\* call waited.
C16_OneRuleset ==
    inflight.pc = "done" =>
        ret.result = parseSegments(inflight.code.s, inflight.segments,
                                   inflight.lookupOk, inflight.splitWith)

-----------------------------------------------------------------------------
(* C17 *)

\* the text in lower case, with every letter that comes right after the
\* separator in upper case
CamelOf(text, separator) ==
    [i \in 1..Len(text) |->
        IF i > 1 /\ text[i - 1] = separator[1]
        THEN UpperChar(LowerChar(text[i]))
        ELSE LowerChar(text[i])]

\* C17: the code generated under CAMEL casing is the joined segments in lower
\* case with the letter after each separator of the ruleset in upper case,
\* for the separator '-' and for the separator '_'.
C17_CamelAnySeparator ==
    (Generated /\ genRuleset.casing = "CAMEL") =>
        ret.code.s = CamelOf(join(generateSegments(form, genRuleset),
                                  separatorOf(genRuleset)),
                             separatorOf(genRuleset))

-----------------------------------------------------------------------------
(* C18 *)

\* the label of a standard token in the fixed table
CodeTypeLabel(token) ==
    CASE token = <<"W","B">> -> "Winback"
      [] token = <<"H","B">> -> "Holdback"
      [] token = <<"C","M","P">> -> "Campaign"
      [] token = <<"F","R","E","E">> -> "Free"
      [] token = <<"E","M","P">> -> "Employee"
      [] token = <<"K","S">> -> "Kompis"

\* the positions of the middle segments that are standard tokens in any case
CodeTypePositions(segs) ==
    { i \in 5..(Len(segs) - 1) : toUpperCase(segs[i]) \in Range(CODE_TYPES) }

\* C18: in a valid result, when some middle segments are standard code-type
\* tokens in any letter case, the code type of the result is the last of
\* them and its display label is the name of that token in the fixed table.
C18_CodeTypeLabel ==
    (Parsed /\ ret.result.isValid) =>
        LET segs == ret.result.segments
            at == CodeTypePositions(segs)
            last == CHOOSE i \in at : \A j \in at : j <= i
        IN  at # {} =>
              /\ ret.result.parsed.codeType = Str(segs[last])
              /\ ret.result.humanReadable.codeType.name
                    = CodeTypeLabel(toUpperCase(segs[last]))

-----------------------------------------------------------------------------
(* C19 *)

\* the positions of the middle segments that are not code types
FreetextPositions(segs) == (5..(Len(segs) - 1)) \ CodeTypePositions(segs)

\* C19: in a valid result, when some middle segments are not code types the
\* campaign text is the first of them, the empty string included, and a
\* result with several of them is valid all the same.
C19_FirstFreetextWins ==
    (Parsed /\ matchInitialOffer(ret.result.segments[3]).ok
            /\ matchRenewalPlan(ret.result.segments[Len(ret.result.segments)]).ok) =>
        LET segs == ret.result.segments
            at == FreetextPositions(segs)
            first == CHOOSE i \in at : \A j \in at : i <= j
        IN  /\ ret.result.isValid
            /\ at # {} =>
                  /\ ret.result.parsed.campaignText = Str(segs[first])
                  /\ ret.result.humanReadable.campaignText = Str(segs[first])

-----------------------------------------------------------------------------
(* C20 *)

\* the input code type, uppercased, is one of the allowed code types
AllowedCodeType(inputs) ==
    \E k \in 1..Len(CODE_TYPES) : CODE_TYPES[k] = toUpperCase(inputs.codeType.s)

\* C20: the code-type segment is the uppercased token when the uppercased
\* input is an allowed code type and is empty otherwise; in the code
\* generateCode returns, an allowed token is the segment before the renewal
\* plan, and an absent or unknown one adds no segment and no separator.
C20_CodeTypeSegment ==
    Generated =>
        LET segs == split(toUpperCase(ret.code.s), separatorOf(genRuleset))
            others == SegmentsAhead(form)
                        + Len(Opt(FreetextOf(form.campaignText.s,
                                             genRuleset.freetextMaxLength))) + 1
        IN  IF AllowedCodeType(form)
            THEN /\ generateCodeTypeSegment(form.codeType) = toUpperCase(form.codeType.s)
                 /\ Len(segs) = others + 1
                 /\ segs[Len(segs) - 1] = toUpperCase(form.codeType.s)
            ELSE /\ generateCodeTypeSegment(form.codeType) = <<>>
                 /\ Len(segs) = others
                 /\ \A i \in 1..Len(segs) : segs[i] # <<>>

\* a code was generated for an input whose code type is not an allowed one
C20_Witness ==
    /\ Generated
    /\ form.codeType.s # <<>>
    /\ ~AllowedCodeType(form)
    /\ separatorCount(ret.code.s, separatorOf(genRuleset)) = SegmentsAhead(form)

-----------------------------------------------------------------------------
(* C21 *)

\* the letters and digits of a name, in order
Alphanumerics(name) ==
    SelectSeq(name, LAMBDA c : IsUpper(c) \/ IsLower(c) \/ IsDigit(c))

\* the first 4 letters and digits of a name, in upper case
ShortcodeOf(name) ==
    LET kept == Alphanumerics(name)
    IN  [i \in 1..(IF Len(kept) < 4 THEN Len(kept) ELSE 4) |-> UpperChar(kept[i])]

\* stored code, else promocode id, else shortcode of the name, in upper case
ProductFallback(product) ==
    IF Truthy(product.code) THEN toUpperCase(product.code.s)
    ELSE IF Truthy(product.promocodeId) THEN toUpperCase(product.promocodeId.s)
    ELSE IF Truthy(product.name) THEN ShortcodeOf(product.name.s)
    ELSE <<>>

\* C21: the product segment is the stored code of the product, else its
\* promocode id, else the shortcode of its name (letters and digits only,
\* first 4, uppercased), in upper case in all three cases; in the code
\* generateCode returns it is the segment after the brand.
C21_ProductFallback ==
    (Generated /\ form.product.isObj) =>
        LET wanted == ProductFallback(form.product)
            segs == split(toUpperCase(ret.code.s), separatorOf(genRuleset))
        IN  /\ generateProductSegment(form.product) = wanted
            /\ wanted = toUpperCase(wanted)
            /\ wanted # <<>> => segs[2] = wanted

\* a code was generated for a product with neither code nor promocode id,
\* whose name has characters to strip among its first 4
C21_Witness ==
    /\ Generated
    /\ form.product.isObj
    /\ ~Truthy(form.product.code)
    /\ ~Truthy(form.product.promocodeId)
    /\ Truthy(form.product.name)
    /\ Alphanumerics(substring0(form.product.name.s, 4))
          # substring0(form.product.name.s, 4)
    /\ split(toUpperCase(ret.code.s), separatorOf(genRuleset))[2]
          = ShortcodeOf(form.product.name.s)

-----------------------------------------------------------------------------
(* C22 *)

\* C22: under the ruleset of the record that sets no field, parseCode of a
\* code that generateCode returned finds at least 5 segments, an initial
\* offer in segment 2 and a renewal plan in the last segment, and returns a
\* valid result.
C22_GeneratedIsAccepted ==
    (ParsedGenerated /\ remote = DefaultRecord) =>
        LET segs == split(ret.arg.s, <<"-">>)
        IN  /\ Len(segs) >= 5
            /\ matchInitialOffer(segs[3]).ok
            /\ matchRenewalPlan(segs[Len(segs)]).ok
            /\ ret.status = "returned"
            /\ ret.result.isValid

-----------------------------------------------------------------------------
(* C23 *)

\* quickValidate was called on the code that parseCode decoded last
QuickValidatedParsed ==
    /\ ret.op = "quickValidate"
    /\ ret.arg = lastParsedCode
    /\ ret.arg.t = "string"
    /\ lastParsedResult.originalCode = ret.arg.s

\* C23: quickValidate returns true for every code whose decode by parseCode
\* is valid.
C23_QuickValidateSound ==
    (QuickValidatedParsed /\ lastParsedResult.isValid) => ret.flag

-----------------------------------------------------------------------------
(* C24 *)

\* the three checks on the segments of a text: at least 5 segments, segment 2
\* an initial offer, the last segment a renewal plan
ThreeChecks(segs) ==
    /\ Len(segs) >= 5
    /\ matchInitialOffer(segs[3]).ok
    /\ matchRenewalPlan(segs[Len(segs)]).ok

\* C24: for a non-empty text, parseCode yields a valid result exactly when the
\* text has at least 5 segments, segment 2 matches the initial-offer pattern
\* and the last segment matches the renewal-plan pattern, whatever segments
\* 0, 1, 3 and the middle segments hold and whether or not the lookups answer.
C24_ValidityChecks ==
    ParsedText =>
        ((ret.status = "returned" /\ ret.result.isValid)
            <=> ThreeChecks(split(ret.arg.s, separatorOf(parserRuleset))))

\* a valid decode of a text whose renewal-type segment is neither T nor E,
\* with a middle segment and a failed lookup
C24_Witness ==
    /\ ParsedText
    /\ ret.status = "returned"
    /\ ret.result.isValid
    /\ ret.lookup = "raised"
    /\ LET segs == split(ret.arg.s, separatorOf(parserRuleset))
       IN  /\ Len(segs) > 5
           /\ segs[4] \notin {<<"T">>, <<"E">>}

-----------------------------------------------------------------------------
(* C25 *)

\* a step in which generateCode threw the validation error
GenerateThrows ==
    /\ form' = form
    /\ ret'.op = "generateCode"
    /\ ret'.status = "thrown"

\* C25: a generateCode call that fails validation leaves the last-generated
\* code, the stored history and the ruleset of the generator as they were; a
\* ruleset that was not loaded is not loaded by the call.
C25_FailedCallChangesNothing ==
    [][GenerateThrows =>
          UNCHANGED <<genRuleset, lastGeneratedCode, history>>]_vars

\* generateCode failed validation after an earlier call had returned a code
C25_Witness ==
    /\ GenerateFailed
    /\ validateInputs(form) # <<>>
    /\ lastGeneratedCode # Null
    /\ GeneratedEntries # <<>>
    /\ genRuleset # NullRuleset

-----------------------------------------------------------------------------
(* C26 *)

-----------------------------------------------------------------------------
(* C27 *)

\* the requests of a key that have not settled
InFlight(k) ==
    { r \in 1..Len(requests) : requests[r].key = k /\ requests[r].state = "pending" }

\* every request has settled and every call has returned
AllSettled ==
    /\ \A r \in 1..Len(requests) : requests[r].state # "pending"
    /\ \A c \in 1..Len(calls) : calls[c].pc = "done"

\* C27: at most one request per cache key is in flight; a call that arrives
\* while the request of its key is pending waits for that request and ends
\* with its outcome; when every request has settled and every call has
\* returned, pendingRequests is empty; the cache holds data of fulfilled
\* requests only.
C27_RequestDeduplication ==
    /\ \A k \in CacheKeys : Cardinality(InFlight(k)) <= 1
    /\ \A c \in 1..Len(calls) :
          /\ calls[c].role = "shared" =>
                \E o \in 1..(c - 1) :
                    /\ calls[o].role = "owner"
                    /\ calls[o].key = calls[c].key
                    /\ calls[o].req = calls[c].req
          /\ calls[c].pc = "done" => calls[c].result = requests[calls[c].req].state
    /\ AllSettled => \A k \in CacheKeys : pendingRequests[k] = 0
    /\ \A k \in CacheKeys :
          cache[k].req # 0 => /\ requests[cache[k].req].state = "fulfilled"
                              /\ requests[cache[k].req].key = k

\* a request was rejected, the call that made it and a call that shared it
\* have both returned with the rejection, and nothing is left pending
C27_Witness ==
    /\ AllSettled
    /\ \E o, c \in 1..Len(calls) :
          /\ calls[o].role = "owner"
          /\ calls[c].role = "shared"
          /\ calls[c].req = calls[o].req
          /\ calls[c].result = "rejected"
          /\ cache[calls[o].key] = NoEntry

-----------------------------------------------------------------------------
(* C28 *)

\* C28: one performFetch call issues at most RETRY_ATTEMPTS + 1 HTTP requests
\* for any one page of the table.
C28_BoundedRetry ==
    \A page \in 1..MaxPages : issued[page] <= RETRY_ATTEMPTS + 1

-----------------------------------------------------------------------------
(* C29 *)

\* C29: a click that finds isGenerating set is ignored and starts no
\* generateCode call; at most one generateCode call is under way at any
\* time; isGenerating is reset whenever none is under way, whether the last
\* one returned a code, failed validation, or never started because
\* collecting the inputs threw.
C29_SingleGeneration ==
    [][/\ Len(generating') <= 1
       /\ generating' = <<>> => ~isGenerating'
       /\ (isGenerating /\ clicks' # clicks) =>
              /\ lastClick' = "ignored"
              /\ UNCHANGED <<isGenerating, generating, genRuleset,
                             lastGeneratedCode, history, ret>>]_vars

\* a click was ignored while a generateCode call was waiting, after an
\* earlier click had ended without a code (collecting the inputs threw, or
\* validation failed)
C29_Witness ==
    /\ clicks = 3
    /\ lastClick = "ignored"
    /\ isGenerating
    /\ Len(generating) = 1
    /\ history = <<>>

-----------------------------------------------------------------------------
(* C30 *)

\* C30: once every product fetch has completed, filteredProducts does not
\* hold the products of a brand other than the one in currentBrandId: it
\* holds the products of that brand, or nothing when Airtable failed.
C30_ProductsOfCurrentBrand ==
    (brandFetches = {} /\ currentBrandId # "null") =>
        filteredProducts \in {ProductsOf(currentBrandId), {}}

====
